---- MODULE Spec2Model ----
(***************************************************************************)
(* Model of the paper-trading engine of supertrade-beta:                   *)
(* src/trading_simulator.py (TradingSimulator), with the parts of          *)
(* src/trading_strategy.py and src/market_data_collector.py it calls.      *)
(*                                                                         *)
(* Fixed-point representation of the Decimal arithmetic of the simulator.  *)
(*   quantity  q : integer number of quantity steps (the 0.00000001 of     *)
(*                 _calculate_quantity, line 650)                          *)
(*   price     p : integer, quote currency per unit of base currency       *)
(*   quote     x : integer number of quote units; one quote unit is        *)
(*                 fee_rate * (one quantity step at price 1), so that      *)
(*                 quantity * price = q * p * QtyStep quote units and the  *)
(*                 fee of a sell, amount * fee_rate, is q * p quote units  *)
(*   trade fee   : recorded in units of fee_rate quote units, where        *)
(*                 amount * fee_rate is the integer amount * FeeRateNum    *)
(*   percentages : kept as a pair [num, den] meaning 100 * num / den       *)
(* On the values of the model (below 2^31 units, at most 10 significant    *)
(* digits) every Decimal product, sum and difference of the code is exact  *)
(* (Decimal context precision 28) and float(x) followed by                 *)
(* Decimal(str(.)) returns x (a double carries 15 significant digits), so  *)
(* the float fields of a trade are kept as the same integers.              *)
(* The simulator is the one built by TradingSimulator() with user_id None  *)
(* (the default), so _store_trade_in_db is never called (lines 184, 349),  *)
(* except under SpecStore, where it may be built for a user and the calls  *)
(* of execute_buy and execute_sell pass store_in_db.                       *)
(***************************************************************************)
EXTENDS Integers, Sequences, FiniteSets, TLC

\* ---------------------------------------------------------------- bounds
\* starting_capital of the simulator under test, in quote units
StartingCapital == 3000
\* execute_buy, execute_sell and run_simulation are called while the trade
\* history is shorter than this
MaxTrades == 2
\* calls with valid arguments are made while the history is shorter than this
MaxValidTrades == 3
\* threads MarketDataCollector.start() may start in one behaviour
MaxThreads == 3
\* largest amount argument, in multiples of QtyStep quote units
MaxAmount == 3
\* largest quantity argument, in quantity steps
MaxQuantity == 2
\* largest price argument
MaxPrice == 2
\* largest days argument of run_simulation
MaxDays == 3
\* latest start of a second run on the same bars, in whole days after the
\* newest bar
MaxStartDelay == 1
\* longest bar series handed to the indicators, and its largest close
MaxBars == 3
MaxClose == 3
\* largest period argument of calculate_rsi
MaxPeriod == 2
\* largest risk_level argument of the constructors
MaxRiskLevel == 6

\* ------------------------------------------------------ program constants
\* fee_rate = Decimal('0.001') = FeeRateNum / FeeRateDen
FeeRateNum == 1
FeeRateDen == 1000
\* quote units in (one quantity step) * (price 1)
QtyStep == FeeRateDen

\* limit = days * 24 bars are asked of the data source (interval '1h')
HoursPerDay == 24
\* a symbol is evaluated on a day once it has this many bars
MinBars == 30
\* risk_level of the simulator and of the strategy it builds (the default)
RiskLevel == 3
\* TechnicalIndicators.indicators_config
EmaShort == 7
EmaLong == 21
RsiPeriod == 14
RsiOversold == 30
RsiOverbought == 70
VwapDeviation == 3

quote_currency == "USDT"
\* the symbols the direct calls trade
Symbols == {"BTCUSDT", "ETHUSDT"}
\* every symbol a call of the model names: the keys the dicts portfolio,
\* open_positions and historical_data may come to hold
AllSymbols == Symbols \cup {"SOLUSDT", "ADAUSDT"}
\* base_currency = symbol[:-len(self.quote_currency)]
base_currency(symbol) ==
  CASE symbol = "BTCUSDT" -> "BTC"
    [] symbol = "ETHUSDT" -> "ETH"
    [] symbol = "SOLUSDT" -> "SOL"
    [] OTHER -> "ADA"
Bases == {base_currency(s) : s \in AllSymbols}
Currencies == {quote_currency} \cup Bases

\* Optional arguments: None is the empty sequence, a value v is <<v>>.
None == <<>>
Some(v) == <<v>>

\* Outcome of one market-data lookup (data_collector.get_klines and the read
\* of market_data['close'].iloc[-1]): NoData when the frame is empty (the
\* read raises), else the last close.
NoData == 0
MarketPrices == {MaxPrice}
MarketOutcomes == {NoData} \cup MarketPrices

\* ---------------------------------------------------------------- helpers
Abs(x) == IF x < 0 THEN -x ELSE x
Max(a, b) == IF a >= b THEN a ELSE b
Min(a, b) == IF a <= b THEN a ELSE b

\* a / b rounded toward zero (ROUND_DOWN), b # 0
TruncDiv(a, b) ==
  LET q == Abs(a) \div Abs(b)
  IN IF (a < 0) # (b < 0) THEN -q ELSE q

\* b # 0 and a / b is an integer
Divides(b, a) == b # 0 /\ Abs(a) % Abs(b) = 0

RECURSIVE SumSeq(_)
SumSeq(s) == IF s = <<>> THEN 0 ELSE Head(s) + SumSeq(Tail(s))

RECURSIVE SumSet(_, _)
SumSet(S, f) ==
  IF S = {} THEN 0
  ELSE LET x == CHOOSE y \in S : TRUE IN f[x] + SumSet(S \ {x}, f)

\* comparison of two ratios with positive denominators
RatioGT(a, b) == a.num * b.den > b.num * a.den

\* ------------------------------------------------------------------ state
VARIABLES
  portfolio,        \* currency -> [present, amount, available]
  trade_history,    \* sequence of trade records
  open_positions,   \* symbol -> [present, lots]; a lot is the index in
                    \* trade_history of the buy trade (the list holds the
                    \* same dict objects as trade_history)
  performance,      \* self.performance
  result,           \* what the last call returned, or the exception it raised
  pc,               \* "idle", or "sim" inside run_simulation
  sim,              \* local variables of run_simulation
  strategy,         \* the TradingStrategy object: risk_level, strategy_params
  call,             \* the last call of a strategy or indicator function made
                    \* outside run_simulation: its arguments as the call
                    \* left them and what it returned or raised
  db,               \* self.user_id, the rows of the trades table, and the
                    \* last call made with a store_in_db argument
  collector         \* the MarketDataCollector: is_running, scheduler_thread,
                    \* the threads it started, the jobs registered with the
                    \* schedule module, and where each thread calling
                    \* start() or stop() stands

vars == <<portfolio, trade_history, open_positions, performance, result, pc, sim,
          strategy, call, db, collector>>

ZeroRatio == [num |-> 0, den |-> 1]

\* self.performance as __init__ and _reset_simulation build it; the key
\* 'peak_balance' is absent (has_peak = FALSE) until the first metrics update.
InitPerformance ==
  [ starting_balance |-> StartingCapital,
    current_balance |-> StartingCapital,
    total_profit_loss |-> 0,
    total_profit_loss_pct |-> ZeroRatio,
    win_count |-> 0,
    loss_count |-> 0,
    total_trades |-> 0,
    win_rate |-> ZeroRatio,
    largest_win |-> 0,
    largest_loss |-> 0,
    average_profit |-> ZeroRatio,
    average_loss |-> ZeroRatio,
    drawdown |-> ZeroRatio,
    max_drawdown |-> ZeroRatio,
    has_peak |-> FALSE,
    peak_balance |-> 0 ]

NoBalance == [present |-> FALSE, amount |-> 0, available |-> 0]

InitPortfolio ==
  [c \in Currencies |->
     IF c = quote_currency
     THEN [present |-> TRUE, amount |-> StartingCapital, available |-> StartingCapital]
     ELSE NoBalance]

InitOpenPositions == [s \in AllSymbols |-> [present |-> FALSE, lots |-> <<>>]]

\* the four fields of a simulator that its methods read and write
Sim(pf, th, op, perf) ==
  [portfolio |-> pf, trade_history |-> th, open_positions |-> op, performance |-> perf]

Self == Sim(portfolio, trade_history, open_positions, performance)

\* _reset_simulation leaving the open positions as they are
ResetKeepingPositions == Sim(InitPortfolio, <<>>, open_positions, InitPerformance)

\* the state _reset_simulation leaves, which is the state after __init__
_reset_simulation == Sim(InitPortfolio, <<>>, InitOpenPositions, InitPerformance)

\* historical_data[symbol] of run_simulation: the symbol is absent when the
\* fetch raised; else the frame get_klines returned, which is pd.DataFrame()
\* (no column at all) when it caught an error or got no kline, and else n
\* hourly bars, the last one at the time of the call
Absent == [kind |-> "absent", n |-> 0]
EmptyFrame == [kind |-> "empty", n |-> 0]
Bars(n) == [kind |-> "bars", n |-> n]

\* the local variables of run_simulation; dirty_before records whether the
\* simulator had been used before the call, requests the calls of
\* generate_trade_recommendation made so far: the day, the symbol, the
\* number of bars and the available capital passed, and the trade executed
\* on the recommendation (0 for none)
NoSim == [symbols |-> <<>>, days |-> 0, day |-> 0, idx |-> 0,
          historical_data |-> [s \in AllSymbols |-> Absent], daily_results |-> <<>>,
          at_midnight |-> FALSE, dirty_before |-> FALSE,
          requests |-> <<>>, signal |-> "none",
          summary |-> <<>>]

\* ------------------------------------------------------- portfolio ledger
\* self.portfolio.get(currency, {}).get('available', Decimal('0'))
Available(pf, currency) == IF pf[currency].present THEN pf[currency].available ELSE 0

_update_portfolio_balance(pf, currency, amount) ==
  [pf EXCEPT ![currency] =
     [present |-> TRUE, amount |-> @.amount + amount, available |-> @.available + amount]]

\* _calculate_quantity giving one quantity step less than the quotient
CalculateQuantityStepShort(amount, price) == TruncDiv(amount, price * QtyStep) - 1

\* lines 647-650: amount / price, rounded down to a whole quantity step
_calculate_quantity(amount, price) == TruncDiv(amount, price * QtyStep)

\* get_balance()['total_balance_usd']: the quote amount plus, for every other
\* currency of the portfolio whose price lookup succeeds, amount * price.
\* val[c] is the outcome of the lookup for currency c.
get_balance(pf, val) ==
  pf[quote_currency].amount
  + SumSet({c \in Bases : pf[c].present /\ val[c] # NoData},
           [c \in Bases |-> pf[c].amount * val[c] * QtyStep])

\* ------------------------------------------------------------ performance
\* _update_performance_metrics: the performance dict it leaves, and whether
\* it raised.  peak_balance is written before the drawdown division, which
\* raises decimal.InvalidOperation / DivisionByZero when the peak is 0.
_update_performance_metrics(s, val) ==
  LET p0 == s.performance
      total == get_balance(s.portfolio, val)
      pl == total - StartingCapital
      decided == p0.win_count + p0.loss_count
      profits == SelectSeq(s.trade_history, LAMBDA t : t.has_pl /\ t.profit_loss > 0)
      losses == SelectSeq(s.trade_history, LAMBDA t : t.has_pl /\ t.profit_loss < 0)
      PL(ts) == [i \in 1..Len(ts) |-> ts[i].profit_loss]
      peak == Max(total, IF p0.has_peak THEN p0.peak_balance ELSE 0)
      p1 == [p0 EXCEPT
               !.current_balance = total,
               !.total_profit_loss = pl,
               !.total_profit_loss_pct =
                  IF StartingCapital > 0 THEN [num |-> pl, den |-> StartingCapital] ELSE @,
               !.total_trades = Len(s.trade_history),
               !.win_rate =
                  IF decided > 0 THEN [num |-> p0.win_count, den |-> decided] ELSE @,
               !.average_profit =
                  IF profits # <<>> THEN [num |-> SumSeq(PL(profits)), den |-> Len(profits)] ELSE @,
               !.average_loss =
                  IF losses # <<>> THEN [num |-> SumSeq(PL(losses)), den |-> Len(losses)] ELSE @,
               !.has_peak = TRUE,
               !.peak_balance = peak]
      current_drawdown == [num |-> peak - total, den |-> peak]
  IN IF peak = 0
     THEN [performance |-> p1, raised |-> TRUE]
     ELSE [performance |->
             [p1 EXCEPT !.drawdown = current_drawdown,
                        !.max_drawdown = IF RatioGT(current_drawdown, @)
                                         THEN current_drawdown ELSE @],
           raised |-> FALSE]

\* --------------------------------------------------------------- results
\* What a call hands back: status "success" or "error" of the returned dict,
\* or "exception" when the call ends by raising.  trade is the index in
\* trade_history of the trade of a success (0 otherwise).
Result(op, status, message, trade) ==
  [op |-> op, status |-> status, message |-> message, trade |-> trade]

Returns(s, res) ==
  [portfolio |-> s.portfolio, trade_history |-> s.trade_history,
   open_positions |-> s.open_positions, performance |-> s.performance, result |-> res]

\* ------------------------------------------------------------ execute_buy
BuyTrade(id, symbol, price, quantity, amount) ==
  [id |-> id, symbol |-> symbol, side |-> "buy", price |-> price,
   quantity |-> quantity, amount |-> amount, fee |-> amount * FeeRateNum,
   is_open |-> TRUE, has_pl |-> FALSE, profit_loss |-> 0,
   profit_loss_pct |-> ZeroRatio, matched_position |-> 0]

\* execute_buy(symbol, amount, price, store_in_db) on simulator state s.
\* mkt is the outcome of the price lookup made when price is None, val the
\* outcomes of the lookups of the metrics update.
execute_buy(s, symbol, amount, price, mkt, val) ==
  LET base == base_currency(symbol)
      px == IF price = None THEN mkt ELSE price[1]
  IN IF amount > Available(s.portfolio, quote_currency)
     THEN Returns(s, Result("execute_buy", "error", "insufficient_balance", 0))
     ELSE IF price = None /\ mkt = NoData
     THEN Returns(s, Result("execute_buy", "error", "price_lookup", 0))
     ELSE IF px = 0
     THEN \* amount / price in _calculate_quantity raises
          Returns(s, Result("execute_buy", "exception", "division_by_zero", 0))
     ELSE
       LET quantity == _calculate_quantity(amount, px)
           pf1 == _update_portfolio_balance(s.portfolio, quote_currency, -amount)
           pf2 == _update_portfolio_balance(pf1, base, quantity)
           id == Len(s.trade_history) + 1
           th == Append(s.trade_history, BuyTrade(id, symbol, px, quantity, amount))
           op == [s.open_positions EXCEPT
                    ![symbol] = [present |-> TRUE, lots |-> Append(@.lots, id)]]
           m == _update_performance_metrics(Sim(pf2, th, op, s.performance), val)
       IN Returns(Sim(pf2, th, op, m.performance),
                  IF m.raised
                  THEN Result("execute_buy", "exception", "metrics_division_by_zero", 0)
                  ELSE Result("execute_buy", "success", "ok", id))


\* ----------------------------------------------------------- execute_sell
SellTrade(id, symbol, price, quantity, amount) ==
  [id |-> id, symbol |-> symbol, side |-> "sell", price |-> price,
   quantity |-> quantity, amount |-> amount, fee |-> amount * FeeRateNum,
   is_open |-> FALSE, has_pl |-> FALSE, profit_loss |-> 0,
   profit_loss_pct |-> ZeroRatio, matched_position |-> 0]

\* SellFee charging nothing
SellFeeWaived(amount) == 0

\* amount * fee_rate in quote units; exact, a sell amount being a multiple
\* of QtyStep
SellFee(amount) == (amount * FeeRateNum) \div FeeRateDen

\* ProfitLoss with the entry price left out
ProfitLossNoEntry(exit_price, entry_price, matched_quantity) ==
  exit_price * matched_quantity * QtyStep

\* line 323: the realized profit or loss of one match, in quote units
ProfitLoss(exit_price, entry_price, matched_quantity) ==
  (exit_price - entry_price) * matched_quantity * QtyStep

\* MatchOrder visiting the newest lot first
MatchOrderNewestFirst(lots) == [i \in 1..Len(lots) |-> lots[Len(lots) + 1 - i]]

\* line 297: the order in which the loop visits the lots of the symbol
MatchOrder(lots) == lots

\* The loop of lines 297-338 from the i-th lot of the list on: th is the
\* trade history (holding the lots and, at index sell, the sell trade),
\* perf the performance dict, remaining the unmatched quantity.
RECURSIVE MatchLots(_, _, _, _, _, _, _)
MatchLots(lots, i, remaining, exit_price, sell, th, perf) ==
  IF i > Len(lots) \/ remaining <= 0
  THEN [trade_history |-> th, performance |-> perf]
  ELSE
    LET pos == th[lots[i]]
        pos_quantity == pos.quantity
        whole == pos_quantity <= remaining
        matched_quantity == IF whole THEN pos_quantity ELSE remaining
        th1 == IF whole
               THEN [th EXCEPT ![lots[i]].is_open = FALSE]
               ELSE [th EXCEPT ![lots[i]].quantity = pos_quantity - matched_quantity]
        entry_price == pos.price
        profit_loss == ProfitLoss(exit_price, entry_price, matched_quantity)
        th2 == [th1 EXCEPT ![sell].matched_position = pos.id,
                           ![sell].has_pl = TRUE,
                           ![sell].profit_loss = profit_loss,
                           ![sell].profit_loss_pct =
                              [num |-> exit_price - entry_price, den |-> entry_price]]
        perf1 == IF profit_loss > 0
                 THEN [perf EXCEPT !.win_count = @ + 1,
                                   !.largest_win = Max(@, profit_loss)]
                 ELSE [perf EXCEPT !.loss_count = @ + 1,
                                   !.largest_loss = Min(@, profit_loss)]
        perf2 == [perf1 EXCEPT !.total_profit_loss = @ + profit_loss]
    IN MatchLots(lots, i + 1, IF whole THEN remaining - pos_quantity ELSE 0,
                 exit_price, sell, th2, perf2)

\* lines 340-343: the lots still open, in their order
RECURSIVE StillOpen(_, _)
StillOpen(lots, th) ==
  IF lots = <<>> THEN <<>>
  ELSE IF th[Head(lots)].is_open
       THEN <<Head(lots)>> \o StillOpen(Tail(lots), th)
       ELSE StillOpen(Tail(lots), th)

\* SellQuantity reducing an explicit quantity to the available balance too
SellQuantityClampAll(available, quantity, amount, px) ==
  IF quantity = None
  THEN IF amount = None
       THEN [ok |-> TRUE, quantity |-> available, why |-> "sell_all"]
       ELSE IF px = 0
       THEN [ok |-> FALSE, quantity |-> 0, why |-> "division_by_zero"]
       ELSE LET above == IF px > 0
                         THEN amount[1] > available * px * QtyStep
                         ELSE amount[1] < available * px * QtyStep
            IN [ok |-> TRUE,
                quantity |-> IF above THEN available ELSE amount[1] \div (px * QtyStep),
                why |-> IF above THEN "clamped" ELSE "ok"]
  ELSE IF quantity[1] > available
       THEN [ok |-> TRUE, quantity |-> available, why |-> "clamped"]
       ELSE [ok |-> TRUE, quantity |-> quantity[1], why |-> "ok"]

\* SellQuantity rejecting a size derived from amount / price above the balance
SellQuantityRejectAll(available, quantity, amount, px) ==
  IF quantity = None
  THEN IF amount = None
       THEN [ok |-> TRUE, quantity |-> available, why |-> "sell_all"]
       ELSE IF px = 0
       THEN [ok |-> FALSE, quantity |-> 0, why |-> "division_by_zero"]
       ELSE LET above == IF px > 0
                         THEN amount[1] > available * px * QtyStep
                         ELSE amount[1] < available * px * QtyStep
            IN IF above
               THEN [ok |-> FALSE, quantity |-> 0, why |-> "insufficient_balance"]
               ELSE [ok |-> TRUE, quantity |-> amount[1] \div (px * QtyStep), why |-> "ok"]
  ELSE IF quantity[1] > available
       THEN [ok |-> FALSE, quantity |-> 0, why |-> "insufficient_balance"]
       ELSE [ok |-> TRUE, quantity |-> quantity[1], why |-> "ok"]

\* The quantity execute_sell settles on (lines 235-259): [ok, quantity], or
\* ok = FALSE with the reason; why names the branch taken.  amount / price is a Decimal quotient; it is
\* compared with the available balance exactly, and its value is used only
\* when it is not above it.
SellQuantity(available, quantity, amount, px) ==
  IF quantity = None
  THEN IF amount = None
       THEN [ok |-> TRUE, quantity |-> available, why |-> "sell_all"]
       ELSE IF px = 0
       THEN [ok |-> FALSE, quantity |-> 0, why |-> "division_by_zero"]
       ELSE LET above == IF px > 0
                         THEN amount[1] > available * px * QtyStep
                         ELSE amount[1] < available * px * QtyStep
            IN [ok |-> TRUE,
                quantity |-> IF above THEN available ELSE amount[1] \div (px * QtyStep),
                why |-> IF above THEN "clamped" ELSE "ok"]
  ELSE IF quantity[1] > available
       THEN [ok |-> FALSE, quantity |-> 0, why |-> "insufficient_balance"]
       ELSE [ok |-> TRUE, quantity |-> quantity[1], why |-> "ok"]

\* The inputs on which amount / price, where its value is used, is a whole
\* number of quantity steps (the others leave the fixed-point grid).
OnGrid(available, quantity, amount, px) ==
  (quantity = None /\ amount # None /\ px # 0)
    => \/ Divides(px * QtyStep, amount[1])
       \/ IF px > 0 THEN amount[1] > available * px * QtyStep
                    ELSE amount[1] < available * px * QtyStep

execute_sell(s, symbol, quantity, amount, price, mkt, val) ==
  LET base == base_currency(symbol)
      available == Available(s.portfolio, base)
      px == IF price = None THEN mkt ELSE price[1]
      want == SellQuantity(available, quantity, amount, px)
  IN IF ~s.portfolio[base].present \/ available <= 0
     THEN Returns(s, Result("execute_sell", "error", "nothing_to_sell", 0))
     ELSE IF price = None /\ mkt = NoData
     THEN Returns(s, Result("execute_sell", "error", "price_lookup", 0))
     ELSE IF ~want.ok
     THEN Returns(s, Result("execute_sell",
                            IF want.why = "division_by_zero" THEN "exception" ELSE "error",
                            want.why, 0))
     ELSE
       LET q == want.quantity
           amt == q * px * QtyStep
           fee == SellFee(amt)
           pf1 == _update_portfolio_balance(s.portfolio, base, -q)
           pf2 == _update_portfolio_balance(pf1, quote_currency, amt - fee)
           id == Len(s.trade_history) + 1
           th == Append(s.trade_history, SellTrade(id, symbol, px, q, amt))
           lots == s.open_positions[symbol].lots
           mt == IF s.open_positions[symbol].present /\ lots # <<>>
                 THEN MatchLots(MatchOrder(lots), 1, q, px, id, th, s.performance)
                 ELSE [trade_history |-> th, performance |-> s.performance]
           op == IF s.open_positions[symbol].present /\ lots # <<>>
                 THEN [s.open_positions EXCEPT
                         ![symbol].lots = StillOpen(lots, mt.trade_history)]
                 ELSE s.open_positions
           m == _update_performance_metrics(
                  Sim(pf2, mt.trade_history, op, mt.performance), val)
       IN Returns(Sim(pf2, mt.trade_history, op, m.performance),
                  IF m.raised
                  THEN Result("execute_sell", "exception", "metrics_division_by_zero", 0)
                  ELSE Result("execute_sell", "success", want.why, id))

\* ------------------------------------------------------------- indicators
\* A pandas DataFrame: its column names and its rows, of which the model
\* keeps the close.  The rows are bars of one calendar day, in timestamp
\* order, with high = low = close and volume 1 where the frame has those
\* columns.  owner tells whether the object is the one the caller passed
\* or one made inside the call; caller_columns are the columns of the
\* caller's object.  Derived columns are computed from close on demand.
Frame(columns, close) ==
  [columns |-> columns, close |-> close, owner |-> "caller", caller_columns |-> columns]

\* DataFrame.copy with every copy left out: the same object
ShareFrame(f) == f

\* DataFrame.copy(): a new object with the same content
CopyFrame(f) == [f EXCEPT !.owner = "callee"]

\* DataFrame.sort_values('timestamp'): a new object (rows already ordered)
SortFrame(f) == [f EXCEPT !.owner = "callee"]

\* result[name] = ... for each of names, on the object f stands for
SetColumns(f, names) ==
  [f EXCEPT !.columns = @ \cup names,
            !.caller_columns = IF f.owner = "caller" THEN @ \cup names ELSE @]

\* what an indicator function hands back: the frame, or the exception raised
Done(df) == [raised |-> "", df |-> df]
Raise(what, df) == [raised |-> what, df |-> df]

\* The statements of a function one after another: each is applied to what
\* the one before it gave, {next(r) : r \in {before}}, and what the last one
\* gave is the one element left.  An exception raised by a statement ends
\* the function: the statements after it hand it on.
Only(S) == CHOOSE out \in S : TRUE

RECURSIVE Pow(_, _)
Pow(b, e) == IF e = 0 THEN 1 ELSE b * Pow(b, e - 1)

\* alpha = 2 / (span + 1) = 1 / EwmDen(span), the spans being odd
EwmDen(span) == (span + 1) \div 2

\* ewm(span, adjust=False).mean() at bar i (1-based), times EwmDen^(i-1):
\* y_1 = x_1, y_i = alpha * x_i + (1 - alpha) * y_(i-1)
RECURSIVE EwmScaled(_, _, _)
EwmScaled(close, i, den) ==
  IF i = 1 THEN close[1]
  ELSE close[i] * Pow(den, i - 2) + (den - 1) * EwmScaled(close, i - 1, den)

\* line 179: ema_7 > ema_21 at bar i
ema_above(close, i) ==
  EwmScaled(close, i, EwmDen(EmaShort)) * Pow(EwmDen(EmaLong), i - 1)
    > EwmScaled(close, i, EwmDen(EmaLong)) * Pow(EwmDen(EmaShort), i - 1)

\* lines 180-183: ema_above.diff().fillna(0), set to 1 where > 0 and to -1
\* where < 0.  diff() of a boolean column is the exclusive or of a bar and
\* the bar before it (True or False, NaN on the first bar), so that a
\* change in either direction is True, which is > 0.
ema_signal(close, i) ==
  IF i > 1 /\ ema_above(close, i) # ema_above(close, i - 1) THEN 1 ELSE 0

\* calculate_ema (lines 45-57)
calculate_ema(data) ==
  LET copied == CopyFrame(data)
  IN IF "close" \notin copied.columns THEN Raise("KeyError: close", copied)
     ELSE Done(SetColumns(copied, {"ema_7", "ema_21"}))

\* an RSI value: NaN, or 100 * num / den
NaN == [nan |-> TRUE, num |-> 0, den |-> 1]
Value(num, den) == [nan |-> FALSE, num |-> num, den |-> den]

\* the sum over the window of `period` bars ending at bar i of the gains
\* (sign = 1) or of the losses (sign = -1) of column close
RECURSIVE WindowSum(_, _, _, _)
WindowSum(close, i, period, sign) ==
  IF period = 0 THEN 0
  ELSE Max(0, sign * (close[i] - close[i - 1])) + WindowSum(close, i - 1, period - 1, sign)

\* lines 78-94 at bar i: delta is NaN on the first bar, so the rolling
\* means are NaN up to bar `period`; rs = avg_gain / avg_loss is a float
\* division: inf for a zero loss and a positive gain, NaN for 0 / 0
Rsi(close, i, period) ==
  LET gain == WindowSum(close, i, period, 1)
      loss == WindowSum(close, i, period, -1)
  IN IF i <= period THEN NaN
     ELSE IF loss = 0 THEN (IF gain = 0 THEN NaN ELSE Value(1, 1))
     ELSE Value(gain, gain + loss)

\* calculate_rsi (lines 72-96)
calculate_rsi(data, period) ==
  LET copied == CopyFrame(data)
  IN IF "close" \notin copied.columns THEN Raise("KeyError: close", copied)
     ELSE Done(SetColumns(copied, {"rsi"}))

\* x > limit and x < limit for an RSI value x; False for NaN
RsiAbove(x, limit) == ~x.nan /\ 100 * x.num > limit * x.den
RsiBelow(x, limit) == ~x.nan /\ 100 * x.num < limit * x.den

\* lines 186-195 at bar i, on an rsi column computed over `period` bars:
\* shift(1) is NaN on the first bar, and NaN == False is False; on the other
\* bars the column shifted holds the False that a comparison with NaN gave
rsi_signal_of(close, i, period) ==
  IF i > 1 /\ RsiBelow(Rsi(close, i, period), RsiOverbought)
           /\ ~RsiBelow(Rsi(close, i - 1, period), RsiOverbought) THEN -1
  ELSE IF i > 1 /\ RsiAbove(Rsi(close, i, period), RsiOversold)
                /\ ~RsiAbove(Rsi(close, i - 1, period), RsiOversold) THEN 1
  ELSE 0

\* the same with the rsi column generate_signals computes itself
rsi_signal(close, i) == rsi_signal_of(close, i, RsiPeriod)

\* calculate_vwap (lines 114-145)
calculate_vwap(data) ==
  LET copied == CopyFrame(data)
      dated == IF "date" \notin copied.columns /\ "timestamp" \in copied.columns
               THEN SetColumns(copied, {"date"}) ELSE copied
  IN IF "close" \notin dated.columns THEN Raise("KeyError: close", dated)
     ELSE IF "volume" \notin dated.columns
     THEN Raise("KeyError: volume", SetColumns(dated, {"typical_price"}))
     ELSE IF "date" \notin dated.columns
     THEN Raise("KeyError: date", SetColumns(dated, {"typical_price", "pv"}))
     ELSE Done(SetColumns(dated, {"typical_price", "pv", "cumulative_pv",
                                  "cumulative_volume", "vwap", "vwap_deviation",
                                  "vwap_above_threshold", "vwap_below_threshold"}))

\* lines 199-205 at bar i: vwap is the mean of the closes of the day so far,
\* vwap_deviation = (close - vwap) / vwap * 100
vwap_signal(close, i) ==
  LET cumulative == SumSeq(SubSeq(close, 1, i))
      deviation == 100 * (close[i] * i - cumulative)
  IN IF deviation > VwapDeviation * cumulative THEN -1
     ELSE IF deviation < -VwapDeviation * cumulative THEN 1
     ELSE 0

\* generate_signals (lines 158-219)
generate_signals(data) ==
  LET ema(df) == IF {"ema_7", "ema_21"} \subseteq df.columns THEN Done(df)
                ELSE calculate_ema(df)
      rsi(r) == IF r.raised # "" \/ "rsi" \in r.df.columns THEN r
                ELSE calculate_rsi(r.df, RsiPeriod)
      vwap(r) == IF r.raised # "" \/ "vwap" \in r.df.columns \/ "volume" \notin r.df.columns
                 THEN r ELSE calculate_vwap(r.df)
      signals(r) == IF r.raised # "" THEN r
                    ELSE Done(SetColumns(r.df, {"ema_signal", "rsi_signal", "vwap_signal",
                                                "combined_signal", "ema_above",
                                                "rsi_above_oversold", "rsi_below_overbought",
                                                "signal"}))
  IN Only({signals(v) : v \in {vwap(r) : r \in {rsi(e) : e \in {ema(CopyFrame(data))}}}})

\* analyze_market_data (lines 232-265)
analyze_market_data(data) ==
  LET df == IF "timestamp" \in data.columns THEN SortFrame(data) ELSE CopyFrame(data)
      rsi(r) == IF r.raised # "" THEN r ELSE calculate_rsi(r.df, RsiPeriod)
      vwap(r) == IF r.raised # "" \/ "volume" \notin r.df.columns THEN r
                 ELSE calculate_vwap(r.df)
      signals(r) == IF r.raised # "" THEN r ELSE generate_signals(r.df)
      \* latest = df.iloc[-1]
      latest(r) == IF r.raised # "" THEN r
                   ELSE IF r.df.close = <<>> THEN Raise("IndexError", r.df)
                   ELSE r
  IN Only({latest(g) :
             g \in {signals(v) :
                      v \in {vwap(r) : r \in {rsi(e) : e \in {calculate_ema(df)}}}}})

\* ------------------------------------------------------------- strategy
\* TradingStrategy._get_strategy_params: position_size in percent
position_size(risk_level) ==
  CASE risk_level = 1 -> 10
    [] risk_level = 2 -> 15
    [] risk_level = 4 -> 25
    [] risk_level = 5 -> 30
    [] OTHER -> 20

\* max_positions of _get_strategy_params
max_positions(risk_level) ==
  CASE risk_level = 1 -> 3
    [] risk_level = 2 -> 4
    [] risk_level = 4 -> 6
    [] risk_level = 5 -> 8
    [] OTHER -> 5

\* signal_threshold of _get_strategy_params, in thousandths
signal_threshold(risk_level) ==
  CASE risk_level = 1 -> 700
    [] risk_level = 2 -> 600
    [] risk_level = 4 -> 400
    [] risk_level = 5 -> 300
    [] OTHER -> 500

\* signal_threshold * 1.5 as the float product comes out, in thousandths:
\* 1.0499999999999998, 0.8999999999999999, 0.75, 0.6000000000000001 and
\* 0.44999999999999996 lie on the same side of every value the combined
\* signal takes as 1049, 899, 750, 601 and 449
strong_threshold(risk_level) ==
  CASE risk_level = 1 -> 1049
    [] risk_level = 2 -> 899
    [] risk_level = 4 -> 601
    [] risk_level = 5 -> 449
    [] OTHER -> 750

\* TradingStrategy._get_strategy_params: the defaults of risk level 3,
\* updated for the levels 1, 2, 4 and 5
_get_strategy_params(risk_level) ==
  [signal_threshold |-> signal_threshold(risk_level),
   strong_threshold |-> strong_threshold(risk_level),
   position_size |-> position_size(risk_level),
   max_positions |-> max_positions(risk_level)]

\* TradingStrategy.__init__(risk_level)
TradingStrategy(risk_level) ==
  [risk_level |-> risk_level, strategy_params |-> _get_strategy_params(risk_level)]

\* no call made yet
NoCall == [op |-> "none", args |-> <<>>, left |-> <<>>, out |-> <<>>]

\* lines 151-161: custom_signal = 0, += ema_signal * 0.4, += rsi_signal * 0.3,
\* += vwap_signal * 0.3, in thousandths.  The float sums that miss the
\* decimal value (0.39999999999999997, 0.10000000000000003,
\* 0.19999999999999996 and their negatives) are kept one thousandth to the
\* side on which they miss it.
custom_signal(ema, rsi, vwap) ==
  LET exact == 400 * ema + 300 * rsi + 300 * vwap
  IN CASE <<ema, rsi, vwap>> = <<1, 1, -1>> -> exact - 1
       [] <<ema, rsi, vwap>> = <<-1, -1, 1>> -> exact + 1
       [] <<ema, rsi, vwap>> \in {<<1, -1, 0>>, <<1, 0, -1>>} -> exact + 1
       [] <<ema, rsi, vwap>> \in {<<-1, 1, 0>>, <<-1, 0, 1>>} -> exact - 1
       [] <<ema, rsi, vwap>> = <<-1, 1, 1>> -> exact - 1
       [] <<ema, rsi, vwap>> = <<1, -1, -1>> -> exact + 1
       [] OTHER -> exact

\* _interpret_signal (lines 187-198)
_interpret_signal(signal_value, params) ==
  IF signal_value >= params.strong_threshold THEN "STRONG BUY"
  ELSE IF signal_value >= params.signal_threshold THEN "BUY"
  ELSE IF signal_value <= -params.strong_threshold THEN "STRONG SELL"
  ELSE IF signal_value <= -params.signal_threshold THEN "SELL"
  ELSE "HOLD"

\* TradingStrategy.analyze (lines 112-138): the analyzed frame and, of the
\* signal summary, the price, the combined signal and its reading
analyze(market_data) ==
  LET custom(df) ==
        custom_signal(ema_signal(df.close, Len(df.close)), rsi_signal(df.close, Len(df.close)),
                      IF "vwap" \in df.columns THEN vwap_signal(df.close, Len(df.close))
                      ELSE 0)
      summary(a) ==
        IF a.raised # "" THEN a
        ELSE [raised |-> "",
              df |-> SetColumns(a.df, {"custom_signal", "signal_strength", "signal"}),
              price |-> a.df.close[Len(a.df.close)],
              custom_signal |-> custom(a.df),
              signal |-> _interpret_signal(custom(a.df), strategy.strategy_params)]
  IN Only({summary(a) : a \in {analyze_market_data(market_data)}})

\* calculate_position_size: available_capital * position_size, a float
\* product, kept to a whole quote unit
calculate_position_size(available_capital) ==
  (available_capital * strategy.strategy_params.position_size) \div 100

\* get_open_positions: per symbol None, or Some(summary of its lots).  A
\* symbol is left out when it has no lot, when the total quantity is <= 0,
\* and when the price lookup (val) or the division by the cost raises.
get_open_positions(s, val) ==
  [symbol \in AllSymbols |->
     LET positions == s.open_positions[symbol].lots
         total_quantity ==
           SumSeq([i \in 1..Len(positions) |-> s.trade_history[positions[i]].quantity])
         total_cost ==
           SumSeq([i \in 1..Len(positions) |-> s.trade_history[positions[i]].amount])
         current_price == val[base_currency(symbol)]
     IN IF ~s.open_positions[symbol].present \/ positions = <<>> THEN None
        ELSE IF total_quantity <= 0 THEN None
        ELSE IF current_price = NoData \/ total_cost = 0 THEN None
        ELSE Some([quantity |-> total_quantity,
                   avg_price |-> [num |-> total_cost, den |-> total_quantity],
                   current_price |-> current_price,
                   current_value |-> total_quantity * current_price * QtyStep,
                   cost_basis |-> total_cost,
                   profit_loss |-> total_quantity * current_price * QtyStep - total_cost,
                   profit_loss_pct |->
                     [num |-> total_quantity * current_price * QtyStep - total_cost,
                      den |-> total_cost],
                   positions |-> positions])]

\* generate_trade_recommendation, given the signal analyze() reads off the
\* last bar and that bar's close.  current_positions is what the caller
\* passes: None or Some(dict); "symbol in current_positions" tests the keys
\* of that dict.  quantity is the quantity to sell; that of a BUY
\* (position_size / current_price) is not used by any caller and left 0.
generate_trade_recommendation(symbol, signal, close, available_capital, current_positions) ==
  LET has_position ==
        current_positions # None /\ symbol \in DOMAIN current_positions[1]
      position == current_positions[1][symbol]
  IN IF signal \in {"BUY", "STRONG BUY"} /\ ~has_position
     THEN [raised |-> "", action |-> "BUY", price |-> close,
           amount |-> calculate_position_size(available_capital), quantity |-> 0]
     ELSE IF signal \in {"SELL", "STRONG SELL"} /\ has_position
     THEN IF "quantity" \notin DOMAIN position
          THEN [raised |-> "KeyError: quantity", action |-> "", price |-> close,
                amount |-> 0, quantity |-> 0]
          ELSE IF "entry_price" \notin DOMAIN position
          THEN [raised |-> "KeyError: entry_price", action |-> "", price |-> close,
                amount |-> 0, quantity |-> 0]
          ELSE [raised |-> "", action |-> "SELL", price |-> close,
                amount |-> position.quantity * close * QtyStep,
                quantity |-> position.quantity]
     ELSE [raised |-> "", action |-> "HOLD", price |-> close, amount |-> 0,
           quantity |-> 0]

\* generate_trade_recommendation from its market_data argument (lines
\* 265-315): analyze, then the recommendation on the latest bar
recommend(symbol, market_data, available_capital, current_positions) ==
  LET recommendation(a) ==
        LET r == generate_trade_recommendation(symbol, a.signal, a.price, available_capital,
                                               current_positions)
        IN [raised |-> r.raised, action |-> r.action, price |-> r.price,
            amount |-> r.amount, quantity |-> r.quantity,
            custom_signal |-> a.custom_signal, data_columns |-> a.df.caller_columns]
      \* analyze raised: no recommendation
      outcome(a) ==
        IF a.raised = "" THEN recommendation(a)
        ELSE [raised |-> a.raised, action |-> "", price |-> 0, amount |-> 0, quantity |-> 0,
              custom_signal |-> 0, data_columns |-> a.df.caller_columns]
  IN Only({outcome(a) : a \in {analyze(market_data)}})

\* --------------------------------------------------------- run_simulation
\* bars of a frame of n hourly bars with timestamp <= current_date on
\* simulated day `day` of a run started `started` whole days after the
\* newest bar: current_date = now - (days - day) days, and bar i of n is
\* (n - i) hours + started days old
VisibleBars(n, days, day, started) ==
  Max(0, Min(n, n - HoursPerDay * (days - day - started)))

\* BarsUpTo returning the whole frame, later bars included
BarsUpToNow(n, days, day) == n

\* line 501, on the frame _get_market_data has just fetched (newest bar now)
BarsUpTo(n, days, day) == VisibleBars(n, days, day, 0)

\* StepCapital reading the capital the run started with
StepCapitalAtStart(s) == StartingCapital

\* line 509: the available capital handed to the strategy
StepCapital(s) == s.portfolio[quote_currency].available

\* lines 497-538 for one symbol on one day, on simulator state s: the state
\* it leaves and whether an exception escapes run_simulation.  signal and
\* close are what the strategy reads off the bars passed to it, pos_val and
\* val the outcomes of the lookups of get_open_positions and of the metrics
\* update of the trade.
SimEvaluate(s, h, symbol, days, day, signal, close, pos_val, val) ==
  IF h.kind = "absent"
  THEN [state |-> s, raised |-> FALSE, evaluated |-> FALSE, bars |-> 0, capital |-> 0]
  ELSE IF h.kind = "empty"
  THEN \* historical_data[symbol]['timestamp'] raises KeyError, outside the try
       [state |-> s, raised |-> TRUE, evaluated |-> FALSE, bars |-> 0, capital |-> 0]
  ELSE IF BarsUpTo(h.n, days, day) < MinBars
  THEN [state |-> s, raised |-> FALSE, evaluated |-> FALSE, bars |-> 0, capital |-> 0]
  ELSE
    LET available_capital == StepCapital(s)
        open == get_open_positions(s, pos_val)
        recommendation ==
          generate_trade_recommendation(symbol, signal, close, available_capital, open[symbol])
        r == IF recommendation.raised # ""
             THEN Returns(s, Result("hold", "error", "caught", 0))
             ELSE IF recommendation.action = "BUY"
             THEN execute_buy(s, symbol, recommendation.amount,
                              Some(recommendation.price), NoData, val)
             ELSE IF recommendation.action = "SELL" /\ open[symbol] # None
             THEN execute_sell(s, symbol, Some(open[symbol][1].quantity), None,
                               Some(recommendation.price), NoData, val)
             ELSE Returns(s, Result("hold", "success", "ok", 0))
    IN [state |-> Sim(r.portfolio, r.trade_history, r.open_positions, r.performance),
        raised |-> FALSE, evaluated |-> TRUE,
        bars |-> BarsUpTo(h.n, days, day), capital |-> available_capital]

\* the 'trades' entry of a daily result: the trades whose timestamp, cut to
\* its date, equals current_date.  Every trade is stamped datetime.now(),
\* and current_date keeps the time of day at which the run started, so they
\* are equal only on the last day of a run started at midnight sharp.
TradesOfDay(s, days, day, at_midnight) ==
  IF at_midnight /\ day = days THEN Len(s.trade_history) ELSE 0

\* ----------------------------------------------------------------- inputs
\* Arguments of the direct calls.  Amounts are multiples of QtyStep quote
\* units; the negative amount and quantity and the price 0 are the arguments
\* a caller may pass that no check of the code excludes.
AmountArgs == {-QtyStep} \cup {k * QtyStep : k \in 1..MaxAmount}
QuantityArgs == {-1} \cup 1..MaxQuantity
PriceArgs == {None} \cup {Some(p) : p \in 0..MaxPrice}
\* the arguments a well-behaved caller passes
ValidAmountArgs == {a \in AmountArgs : a > 0}
ValidQuantityArgs == {q \in QuantityArgs : q > 0}
ValidPriceArgs == {Some(p) : p \in 1..MaxPrice}

\* quantity and amount arguments of execute_sell
SizeArgs(quantities, amounts) ==
  {[quantity |-> Some(q), amount |-> None] : q \in quantities}
  \cup {[quantity |-> None, amount |-> Some(a)] : a \in amounts}
  \cup {[quantity |-> None, amount |-> None]}

MarketFor(price) == IF price = None THEN MarketOutcomes ELSE {NoData}
NoLookup == [c \in Bases |-> NoData]
AllValuations == [Bases -> MarketOutcomes]

\* The outcomes of the lookups of the metrics update of a call that ends as
\* r does: a lookup is made, and its outcome reaches the total, only when
\* the update ran and the currency is held.
Lookups(r, outcomes) ==
  {val \in [Bases -> outcomes] :
     \A c \in Bases :
       val[c] # NoData =>
         /\ r.result.status # "error"
         /\ r.result.message # "division_by_zero"
         /\ r.portfolio[c].present
         /\ r.portfolio[c].amount # 0}

\* The outcomes of the lookups get_balance and get_open_positions make on
\* portfolio pf: the price of a currency is looked up, and reaches the
\* value computed, only when the currency is held.
HeldLookups(pf) ==
  {val \in AllValuations :
     \A c \in Bases : val[c] # NoData => (pf[c].present /\ pf[c].amount # 0)}

Apply(r) ==
  /\ portfolio' = r.portfolio
  /\ trade_history' = r.trade_history
  /\ open_positions' = r.open_positions
  /\ performance' = r.performance
  /\ result' = r.result

\* one call of execute_buy with arguments and lookup outcomes from the sets
BuyCall(amounts, prices, outcomes) ==
  \E symbol \in Symbols, amount \in amounts, price \in prices :
    \E mkt \in MarketFor(price) \cap outcomes :
      \E val \in Lookups(execute_buy(Self, symbol, amount, price, mkt, NoLookup), outcomes) :
        Apply(execute_buy(Self, symbol, amount, price, mkt, val))

\* one call of execute_sell
SellCall(sizes, prices, outcomes) ==
  \E symbol \in Symbols, size \in sizes, price \in prices :
    \E mkt \in MarketFor(price) \cap outcomes :
      /\ OnGrid(Available(portfolio, base_currency(symbol)), size.quantity, size.amount,
                IF price = None THEN mkt ELSE price[1])
      /\ \E val \in Lookups(execute_sell(Self, symbol, size.quantity, size.amount,
                                         price, mkt, NoLookup), outcomes) :
           Apply(execute_sell(Self, symbol, size.quantity, size.amount, price, mkt, val))

\* ---------------------------------------------------------------- actions
\* the trades table is empty and no call has been made
NoDb(user_id) == [user_id |-> user_id, rows |-> <<>>, last |-> None]

\* the threads that call start() and stop()
Callers == {"main", "other"}

\* a caller outside start() and stop()
IdleCaller == [pc |-> "idle", thread |-> None, upto |-> 0]

\* MarketDataCollector(): not running, no scheduler thread
MarketDataCollector ==
  [is_running |-> FALSE,
   scheduler_thread |-> None,
   threads |-> <<>>,
   jobs |-> 0,
   callers |-> [c \in Callers |-> IdleCaller]]

Init ==
  /\ portfolio = InitPortfolio
  /\ trade_history = <<>>
  /\ open_positions = InitOpenPositions
  /\ performance = InitPerformance
  /\ result = Result("init", "success", "ok", 0)
  /\ pc = "idle"
  /\ sim = NoSim
  /\ strategy = TradingStrategy(RiskLevel)
  /\ call = NoCall
  /\ db = NoDb(None)
  /\ collector = MarketDataCollector

ExecuteBuy ==
  /\ pc = "idle"
  /\ Len(trade_history) < MaxTrades
  /\ BuyCall(AmountArgs, PriceArgs, MarketOutcomes)
  /\ UNCHANGED <<pc, sim, strategy, call, db, collector>>

ExecuteSell ==
  /\ pc = "idle"
  /\ Len(trade_history) < MaxTrades
  /\ SellCall(SizeArgs(QuantityArgs, AmountArgs), PriceArgs, MarketOutcomes)
  /\ UNCHANGED <<pc, sim, strategy, call, db, collector>>

\* arguments of run_simulation and outcomes of its fetches
SymbolLists == {<<"BTCUSDT">>, <<"BTCUSDT", "ETHUSDT">>}
FetchOutcomes(days) == {Absent, EmptyFrame} \cup (IF days > 0 THEN {Bars(days * HoursPerDay)} ELSE {})
Signals == {"BUY", "SELL", "HOLD"}
BarPrices == 1..MaxPrice
InSymbols(symbols) == {symbols[i] : i \in 1..Len(symbols)}

\* run_simulation up to its first day: _reset_simulation, then the fetch of
\* every symbol's history
SimStart ==
  /\ pc = "idle"
  /\ Len(trade_history) < MaxTrades
  /\ \E symbols \in SymbolLists, days \in 0..MaxDays, at_midnight \in BOOLEAN :
       \E fetched \in [AllSymbols -> FetchOutcomes(days)] :
         /\ \A s \in AllSymbols \ InSymbols(symbols) : fetched[s] = Absent
         /\ sim' = [symbols |-> symbols, days |-> days, day |-> 0, idx |-> 1,
                    historical_data |-> fetched, daily_results |-> <<>>,
                    at_midnight |-> at_midnight,
                    dirty_before |-> (Self # _reset_simulation),
                    requests |-> <<>>, signal |-> "none",
                    summary |-> <<>>]
  /\ portfolio' = _reset_simulation.portfolio
  /\ trade_history' = _reset_simulation.trade_history
  /\ open_positions' = _reset_simulation.open_positions
  /\ performance' = _reset_simulation.performance
  /\ result' = Result("run_simulation", "running", "ok", 0)
  /\ pc' = "sim"
  /\ UNCHANGED <<strategy, call, db, collector>>

\* one symbol of the for loop of one day
SimSymbol ==
  /\ pc = "sim"
  /\ sim.day <= sim.days
  /\ sim.idx <= Len(sim.symbols)
  /\ \E signal \in Signals, close \in BarPrices, pos_val \in HeldLookups(portfolio) :
      \E val \in HeldLookups(SimEvaluate(Self, sim.historical_data[sim.symbols[sim.idx]],
                                         sim.symbols[sim.idx], sim.days, sim.day,
                                         signal, close, pos_val, NoLookup).state.portfolio) :
       LET symbol == sim.symbols[sim.idx]
           e == SimEvaluate(Self, sim.historical_data[symbol], symbol, sim.days, sim.day,
                            signal, close, pos_val, val)
       IN /\ portfolio' = e.state.portfolio
          /\ trade_history' = e.state.trade_history
          /\ open_positions' = e.state.open_positions
          /\ performance' = e.state.performance
          /\ IF e.raised
             THEN /\ pc' = "done"
                  /\ result' = Result("run_simulation", "exception", "key_error_timestamp", 0)
                  /\ sim' = sim
             ELSE /\ pc' = pc
                  /\ result' = result
                  /\ sim' = [sim EXCEPT
                               !.idx = @ + 1,
                               !.signal = IF e.evaluated THEN signal ELSE @,
                               !.requests =
                                  IF e.evaluated
                                  THEN Append(@, [day |-> sim.day, idx |-> sim.idx,
                                                  symbol |-> symbol, bars |-> e.bars,
                                                  capital |-> e.capital,
                                                  trade |->
                                                    IF Len(e.state.trade_history) > Len(trade_history)
                                                    THEN Len(e.state.trade_history) ELSE 0])
                                  ELSE @]
  /\ UNCHANGED <<strategy, call, db, collector>>

\* lines 540-548: the daily result, then the next day
SimEndDay ==
  /\ pc = "sim"
  /\ sim.day <= sim.days
  /\ sim.idx > Len(sim.symbols)
  /\ \E val \in HeldLookups(portfolio) :
       sim' = [sim EXCEPT
                 !.daily_results =
                    Append(@, [date |-> sim.day,
                               balance |-> get_balance(portfolio, val),
                               trades |-> TradesOfDay(Self, sim.days, sim.day, sim.at_midnight)]),
                 !.day = @ + 1,
                 !.idx = 1]
  /\ UNCHANGED <<portfolio, trade_history, open_positions, performance, result, pc,
                 strategy, call, db, collector>>

\* lines 550-566: get_balance, get_performance_metrics (which updates the
\* metrics) and the returned dict
SimFinish ==
  /\ pc = "sim"
  /\ sim.day > sim.days
  /\ \E bal \in HeldLookups(portfolio), val \in HeldLookups(portfolio) :
       LET m == _update_performance_metrics(Self, val)
       IN /\ performance' = m.performance
          /\ result' = IF m.raised
                       THEN Result("run_simulation", "exception", "metrics_division_by_zero", 0)
                       ELSE Result("run_simulation", "success", "ok", 0)
          /\ sim' = [sim EXCEPT
                       !.summary =
                          IF m.raised THEN <<>>
                          ELSE <<[initial_balance |-> StartingCapital,
                                  final_balance |-> get_balance(portfolio, bal),
                                  total_trades |-> Len(trade_history),
                                  win_count |-> m.performance.win_count,
                                  loss_count |-> m.performance.loss_count]>>]
  /\ pc' = "done"
  /\ UNCHANGED <<portfolio, trade_history, open_positions, strategy, call, db, collector>>

Next ==
  \/ ExecuteBuy
  \/ ExecuteSell
  \/ SimStart
  \/ SimSymbol
  \/ SimEndDay
  \/ SimFinish

Spec == Init /\ [][Next]_vars

\* Calls with valid arguments only (positive sizes, explicit positive
\* prices) while the market-data source is unreachable, to a longer history.
ValidBuy ==
  /\ pc = "idle"
  /\ Len(trade_history) < MaxValidTrades
  /\ BuyCall(ValidAmountArgs, ValidPriceArgs, {NoData})
  /\ UNCHANGED <<pc, sim, strategy, call, db, collector>>

ValidSell ==
  /\ pc = "idle"
  /\ Len(trade_history) < MaxValidTrades
  /\ SellCall(SizeArgs(ValidQuantityArgs, ValidAmountArgs), ValidPriceArgs, {NoData})
  /\ UNCHANGED <<pc, sim, strategy, call, db, collector>>

NextValid ==
  \/ ValidBuy
  \/ ValidSell

SpecValid == Init /\ [][NextValid]_vars

\* ------------------------------------- MarketDataCollector start and stop
\* A scheduler thread is "initial" from Thread.start() until schedule_tasks
\* has registered its jobs and made its initial run, "loop" at the test of
\* its while loop, "updating" while run_pending runs update_market_data,
\* and "done" when schedule_tasks has returned.  stopped records that a
\* stop() begun after the thread was started has returned, late that the
\* thread finished a market-data update after that.
\* Attribute reads and writes are atomic in the interpreter; a thread can be
\* preempted between any two of them.
Alive(t) == collector.threads[t].pc # "done"
AliveThreads == {t \in 1..Len(collector.threads) : Alive(t)}

\* callers between the test of start() and its Thread.start()
Starting == {c \in Callers : collector.callers[c].pc \in {"start_set", "start_spawn"}}

SetCaller(c, pc_, thread, upto) ==
  [collector.callers EXCEPT ![c] = [pc |-> pc_, thread |-> thread, upto |-> upto]]

\* start(): if self.is_running: return
StartCheck(c) ==
  /\ collector.callers[c].pc = "idle"
  /\ Len(collector.threads) + Cardinality(Starting) < MaxThreads
  /\ collector' = [collector EXCEPT !.callers =
                     IF collector.is_running THEN @ ELSE SetCaller(c, "start_set", None, 0)]

\* start(): self.is_running = True
StartSet(c) ==
  /\ collector.callers[c].pc = "start_set"
  /\ collector' = [collector EXCEPT !.is_running = TRUE,
                                    !.callers = SetCaller(c, "start_spawn", None, 0)]

\* start(): the thread is created, assigned to self.scheduler_thread and
\* started
StartSpawn(c) ==
  /\ collector.callers[c].pc = "start_spawn"
  /\ collector' = [collector EXCEPT
                     !.threads = Append(@, [pc |-> "initial", stopped |-> FALSE, late |-> FALSE]),
                     !.scheduler_thread = Some(Len(collector.threads) + 1),
                     !.callers = SetCaller(c, "idle", None, 0)]

\* stop(): if not self.is_running: return
StopCheck(c) ==
  /\ collector.callers[c].pc = "idle"
  /\ collector' = [collector EXCEPT !.callers =
                     IF collector.is_running THEN SetCaller(c, "stop_clear", None, 0) ELSE @]

\* stop(): self.is_running = False
StopClear(c) ==
  /\ collector.callers[c].pc = "stop_clear"
  /\ collector' = [collector EXCEPT !.is_running = FALSE,
                                    !.callers = SetCaller(c, "stop_read", None,
                                                          Len(collector.threads))]

\* the threads started before the stop() that now returns began to stop them
StopReturned(threads, upto) ==
  [t \in 1..Len(threads) |->
     IF t <= upto /\ threads[t].pc # "done" THEN [threads[t] EXCEPT !.stopped = TRUE]
     ELSE threads[t]]

\* stop(): if self.scheduler_thread: ... ; without a thread stop() returns
StopRead(c) ==
  /\ collector.callers[c].pc = "stop_read"
  /\ collector' =
       IF collector.scheduler_thread = None
       THEN [collector EXCEPT
               !.threads = StopReturned(@, collector.callers[c].upto),
               !.callers = SetCaller(c, "idle", None, 0)]
       ELSE [collector EXCEPT
               !.callers = SetCaller(c, "stop_join", collector.scheduler_thread,
                                     collector.callers[c].upto)]

\* join(timeout=5) returns: the thread has ended, or five seconds have
\* passed.  A thread at the test of its loop that would read is_running as
\* False ends within the second it sleeps; one inside an update (the
\* initial run or a scheduled one sleeps half a second per symbol, for 15
\* symbols, besides its requests), or one that reads is_running as True
\* again, outlasts the timeout.
JoinReturns(t) ==
  \/ collector.threads[t].pc \in {"done", "initial", "updating"}
  \/ collector.threads[t].pc = "loop" /\ collector.is_running

StopJoin(c) ==
  /\ collector.callers[c].pc = "stop_join"
  /\ JoinReturns(collector.callers[c].thread[1])
  /\ collector' = [collector EXCEPT
                     !.threads = StopReturned(@, collector.callers[c].upto),
                     !.callers = SetCaller(c, "idle", None, 0)]

\* schedule_tasks up to its loop: two jobs registered with the schedule
\* module, update_active_symbols() and update_market_data() run once
ScheduleTasksInitialRun(t) ==
  /\ collector.threads[t].pc = "initial"
  /\ collector' = [collector EXCEPT
                     !.jobs = @ + 1,
                     !.threads[t] = [pc |-> "loop", stopped |-> @.stopped, late |-> @.stopped]]

\* while self.is_running: schedule.run_pending(); time.sleep(1)
\* with a job due or none
ScheduleTasksLoop(t) ==
  /\ collector.threads[t].pc = "loop"
  /\ \E due \in BOOLEAN :
       collector' = [collector EXCEPT !.threads[t].pc =
                       IF ~collector.is_running THEN "done"
                       ELSE IF due /\ collector.jobs > 0 THEN "updating" ELSE "loop"]

\* update_market_data run by run_pending comes to its end
ScheduleTasksUpdate(t) ==
  /\ collector.threads[t].pc = "updating"
  /\ collector' = [collector EXCEPT
                     !.threads[t] = [pc |-> "loop", stopped |-> @.stopped,
                                     late |-> @.late \/ @.stopped]]

\* what the collector does not touch
Simulator == <<portfolio, trade_history, open_positions, performance, result, pc, sim,
               strategy, call, db>>

Start ==
  /\ \E c \in Callers : StartCheck(c) \/ StartSet(c) \/ StartSpawn(c)
  /\ UNCHANGED Simulator

Stop ==
  /\ \E c \in Callers : StopCheck(c) \/ StopClear(c) \/ StopRead(c) \/ StopJoin(c)
  /\ UNCHANGED Simulator

ScheduleTasks ==
  /\ \E t \in 1..Len(collector.threads) :
       ScheduleTasksInitialRun(t) \/ ScheduleTasksLoop(t) \/ ScheduleTasksUpdate(t)
  /\ UNCHANGED Simulator

NextCollector ==
  \/ Start
  \/ Stop
  \/ ScheduleTasks

SpecCollector == Init /\ [][NextCollector]_vars

\* ------------------------------------------ calls at one constant price
\* amounts and quantities >= 0
NonNegativeAmountArgs == {0} \cup ValidAmountArgs
NonNegativeQuantityArgs == {0} \cup ValidQuantityArgs
\* the prices a call may name so that every trade is at one price
FlatPriceArgs ==
  {Some(p) : p \in {q \in 1..MaxPrice :
                      \A i \in 1..Len(trade_history) : trade_history[i].price = q}}

FlatBuy ==
  /\ pc = "idle"
  /\ Len(trade_history) < MaxValidTrades
  /\ BuyCall(NonNegativeAmountArgs, FlatPriceArgs, {NoData})
  /\ UNCHANGED <<pc, sim, strategy, call, db, collector>>

FlatSell ==
  /\ pc = "idle"
  /\ Len(trade_history) < MaxValidTrades
  /\ SellCall(SizeArgs(NonNegativeQuantityArgs, NonNegativeAmountArgs), FlatPriceArgs, {NoData})
  /\ UNCHANGED <<pc, sim, strategy, call, db, collector>>

NextFlat ==
  \/ FlatBuy
  \/ FlatSell

SpecFlat == Init /\ [][NextFlat]_vars

\* --------------------------- run_simulation over more symbols than slots
\* the risk levels whose max_positions is below the number of symbols
CrowdedRiskLevels == {r \in 1..5 : max_positions(r) < Cardinality(AllSymbols)}
\* symbols = every symbol, in one order
ManySymbols == <<"BTCUSDT", "ETHUSDT", "SOLUSDT", "ADAUSDT">>
\* the least days for which the last day of the run shows MinBars bars
ShortestRun == (MinBars + HoursPerDay - 1) \div HoursPerDay

\* TradingSimulator(risk_level=r) for such a level
InitCrowded ==
  /\ portfolio = InitPortfolio
  /\ trade_history = <<>>
  /\ open_positions = InitOpenPositions
  /\ performance = InitPerformance
  /\ result = Result("init", "success", "ok", 0)
  /\ pc = "idle"
  /\ sim = NoSim
  /\ \E r \in CrowdedRiskLevels : strategy = TradingStrategy(r)
  /\ call = NoCall
  /\ db = NoDb(None)
  /\ collector = MarketDataCollector

\* run_simulation(ManySymbols, days=ShortestRun) up to its first day, with
\* days * 24 bars fetched for every symbol
SimStartMany ==
  /\ pc = "idle"
  /\ \E at_midnight \in BOOLEAN :
       sim' = [symbols |-> ManySymbols, days |-> ShortestRun, day |-> 0, idx |-> 1,
               historical_data |-> [s \in AllSymbols |-> Bars(ShortestRun * HoursPerDay)],
               daily_results |-> <<>>,
               at_midnight |-> at_midnight,
               dirty_before |-> (Self # _reset_simulation),
               requests |-> <<>>, signal |-> "none",
               summary |-> <<>>]
  /\ portfolio' = _reset_simulation.portfolio
  /\ trade_history' = _reset_simulation.trade_history
  /\ open_positions' = _reset_simulation.open_positions
  /\ performance' = _reset_simulation.performance
  /\ result' = Result("run_simulation", "running", "ok", 0)
  /\ pc' = "sim"
  /\ UNCHANGED <<strategy, call, db, collector>>

NextCrowded ==
  \/ SimStartMany
  \/ SimSymbol
  \/ SimEndDay
  \/ SimFinish

SpecCrowded == InitCrowded /\ [][NextCrowded]_vars

\* ------------------------------------------- calls that store the trade
\* self.user_id as the constructor may be given it
UserIdArgs == {None, Some(1)}
\* What the session does inside _store_trade_in_db: the row is committed,
\* or next(get_db()) raises and there is no session, or add or commit raises
\* and the session is rolled back and closed.
DbOutcomes == {"stored", "no_session", "commit_failed"}

\* the Trade row built at lines 742-755
TradeRow(user_id, trade) ==
  [user_id |-> user_id[1], symbol |-> trade.symbol, side |-> trade.side,
   quantity |-> trade.quantity, price |-> trade.price, is_simulated |-> TRUE]

\* _store_trade_in_db letting the failure of the session out
StoreTradeRaising(d, trade, outcome) ==
  [db |-> IF outcome = "stored" THEN [d EXCEPT !.rows = Append(@, TradeRow(d.user_id, trade))]
          ELSE d,
   raised |-> outcome # "stored"]

\* lines 730-773: the row is added and committed inside try; except
\* Exception logs the failure and rolls the session back, and nothing is
\* raised to the caller
_store_trade_in_db(d, trade, outcome) ==
  [db |-> IF outcome = "stored" THEN [d EXCEPT !.rows = Append(@, TradeRow(d.user_id, trade))]
          ELSE d,
   raised |-> FALSE]

\* lines 183-190 and 348-355: a call that reached the end of execute_buy or
\* execute_sell as r stores its trade when store_in_db and self.user_id are
\* set, then returns
StoreIfAsked(r, d, store_in_db, outcome) ==
  IF r.result.status = "success" /\ store_in_db /\ d.user_id # None
  THEN LET st == _store_trade_in_db(d, r.trade_history[r.result.trade], outcome)
       IN [ret |-> IF st.raised
                   THEN [r EXCEPT !.result = Result(r.result.op, "exception", "persistence", 0)]
                   ELSE r,
           db |-> st.db]
  ELSE [ret |-> r, db |-> d]

\* what the session does in a call: nothing when the trade is not stored
SessionOutcomes(d, store_in_db) ==
  IF store_in_db /\ d.user_id # None THEN DbOutcomes ELSE {"not_called"}

\* the call is applied; it is recorded when it got as far as line 183 or 348
ApplyStored(c, args) ==
  /\ Apply(c.ret)
  /\ db' = [c.db EXCEPT !.last = IF c.ret.result.status = "error" THEN None ELSE Some(args)]

InitStore ==
  /\ portfolio = InitPortfolio
  /\ trade_history = <<>>
  /\ open_positions = InitOpenPositions
  /\ performance = InitPerformance
  /\ result = Result("init", "success", "ok", 0)
  /\ pc = "idle"
  /\ sim = NoSim
  /\ strategy = TradingStrategy(RiskLevel)
  /\ call = NoCall
  /\ \E user_id \in UserIdArgs : db = NoDb(user_id)
  /\ collector = MarketDataCollector

StoreBuy ==
  /\ pc = "idle"
  /\ Len(trade_history) < MaxTrades
  /\ \E symbol \in Symbols, amount \in ValidAmountArgs, price \in ValidPriceArgs,
        store_in_db \in BOOLEAN :
     \E outcome \in SessionOutcomes(db, store_in_db) :
       ApplyStored(StoreIfAsked(execute_buy(Self, symbol, amount, price, NoData, NoLookup),
                                db, store_in_db, outcome),
                   [op |-> "execute_buy", symbol |-> symbol, amount |-> Some(amount),
                    quantity |-> None, price |-> price, store_in_db |-> store_in_db,
                    outcome |-> outcome])
  /\ UNCHANGED <<pc, sim, strategy, call, collector>>

StoreSell ==
  /\ pc = "idle"
  /\ Len(trade_history) < MaxTrades
  /\ \E symbol \in Symbols, size \in SizeArgs(ValidQuantityArgs, ValidAmountArgs),
        price \in ValidPriceArgs, store_in_db \in BOOLEAN :
     \E outcome \in SessionOutcomes(db, store_in_db) :
       /\ OnGrid(Available(portfolio, base_currency(symbol)), size.quantity, size.amount,
                 price[1])
       /\ ApplyStored(StoreIfAsked(execute_sell(Self, symbol, size.quantity, size.amount,
                                                price, NoData, NoLookup),
                                   db, store_in_db, outcome),
                      [op |-> "execute_sell", symbol |-> symbol, amount |-> size.amount,
                       quantity |-> size.quantity, price |-> price,
                       store_in_db |-> store_in_db, outcome |-> outcome])
  /\ UNCHANGED <<pc, sim, strategy, call, collector>>

NextStore ==
  \/ StoreBuy
  \/ StoreSell

SpecStore == InitStore /\ [][NextStore]_vars

\* ------------------------------ calls of the strategy and the indicators
\* the columns of a frame of get_klines that the indicators read
KlineColumns == {"timestamp", "open", "high", "low", "close", "volume"}
CloseSeqs == UNION {[1..n -> 1..MaxClose] : n \in 0..MaxBars}
\* frames with and without timestamp and volume, of 0 to MaxBars bars, and
\* pd.DataFrame(), which has no column
FrameArgs ==
  {Frame(columns, close) :
     columns \in {KlineColumns, KlineColumns \ {"timestamp"}, {"close"}},
     close \in CloseSeqs}
  \cup {Frame({}, <<>>)}
PeriodArgs == 1..MaxPeriod
RiskLevelArgs == 0..MaxRiskLevel
\* the least and the largest available capital
CapitalArgs == {QtyStep, MaxAmount * QtyStep}

\* an entry of the dict get_open_positions returns (lines 420-432)
OpenPosition(quantity, price) ==
  [quantity |-> quantity,
   avg_price |-> [num |-> quantity * price * QtyStep, den |-> quantity],
   current_price |-> price,
   current_value |-> quantity * price * QtyStep,
   cost_basis |-> quantity * price * QtyStep,
   profit_loss |-> 0,
   profit_loss_pct |-> ZeroRatio,
   positions |-> <<1>>]

\* The current_positions argument: held tells whether it holds an open
\* position for the symbol.  None; the empty dict; what get_open_positions
\* returns, for this or for another symbol; the entry of this symbol alone,
\* which is what run_simulation passes (line 519); and a dict whose entry
\* has the keys generate_trade_recommendation reads.
CurrentPositionsArgs(symbol) ==
  {[held |-> FALSE, value |-> None],
   [held |-> FALSE, value |-> Some(<<>>)],
   [held |-> FALSE,
    value |-> Some([s \in Symbols \ {symbol} |-> OpenPosition(MaxQuantity, MaxPrice)])],
   [held |-> TRUE, value |-> Some([s \in {symbol} |-> OpenPosition(MaxQuantity, MaxPrice)])],
   [held |-> TRUE, value |-> Some(OpenPosition(MaxQuantity, MaxPrice))],
   [held |-> TRUE,
    value |-> Some([s \in {symbol} |-> [quantity |-> MaxQuantity, entry_price |-> MaxPrice]])]}

\* TradingStrategy(risk_level=r)
NewStrategy ==
  /\ pc = "idle"
  /\ call.op = "none"
  /\ \E r \in RiskLevelArgs :
       /\ strategy' = TradingStrategy(r)
       /\ call' = [op |-> "TradingStrategy", args |-> [risk_level |-> r],
                   left |-> [risk_level |-> r], out |-> [raised |-> ""]]
  /\ UNCHANGED <<portfolio, trade_history, open_positions, performance, result, pc, sim, db, collector>>

\* TradingSimulator(risk_level=r), which builds TradingStrategy(risk_level=r)
NewSimulator ==
  /\ pc = "idle"
  /\ call.op = "none"
  /\ \E r \in RiskLevelArgs :
       /\ strategy' = TradingStrategy(r)
       /\ call' = [op |-> "TradingSimulator", args |-> [risk_level |-> r],
                   left |-> [risk_level |-> r], out |-> [raised |-> ""]]
  /\ portfolio' = InitPortfolio
  /\ trade_history' = <<>>
  /\ open_positions' = InitOpenPositions
  /\ performance' = InitPerformance
  /\ result' = Result("init", "success", "ok", 0)
  /\ UNCHANGED <<pc, sim, db, collector>>

\* TechnicalIndicators().analyze_market_data(data)
Analyze ==
  /\ pc = "idle"
  /\ call.op = "none"
  /\ \E data \in FrameArgs :
       LET a == analyze_market_data(data)
           n == IF a.raised = "" THEN Len(data.close) ELSE 0
       IN call' = [op |-> "analyze_market_data", args |-> [data |-> data],
                   left |-> [data_columns |-> a.df.caller_columns],
                   out |-> [raised |-> a.raised,
                            columns |-> a.df.columns,
                            ema_above |-> [i \in 1..n |-> ema_above(data.close, i)],
                            ema_signal |-> [i \in 1..n |-> ema_signal(data.close, i)]]]
  /\ UNCHANGED <<portfolio, trade_history, open_positions, performance, result, pc, sim,
                 strategy, db, collector>>

\* TechnicalIndicators().calculate_rsi(data, period=period)
CalculateRsi ==
  /\ pc = "idle"
  /\ call.op = "none"
  /\ \E data \in FrameArgs, period \in PeriodArgs :
       LET c == calculate_rsi(data, period)
           n == IF c.raised = "" THEN Len(data.close) ELSE 0
       IN call' = [op |-> "calculate_rsi", args |-> [data |-> data, period |-> period],
                   left |-> [data_columns |-> c.df.caller_columns],
                   out |-> [raised |-> c.raised,
                            columns |-> c.df.columns,
                            rsi |-> [i \in 1..n |-> Rsi(data.close, i, period)]]]
  /\ UNCHANGED <<portfolio, trade_history, open_positions, performance, result, pc, sim,
                 strategy, db, collector>>

\* ti = TechnicalIndicators(); ti.generate_signals(ti.calculate_rsi(data,
\* period=period)): generate_signals keeps the rsi column it is given
GenerateSignals ==
  /\ pc = "idle"
  /\ call.op = "none"
  /\ \E data \in FrameArgs, period \in PeriodArgs :
       LET g == Only({IF c.raised # "" THEN c ELSE generate_signals(c.df) :
                       c \in {calculate_rsi(data, period)}})
           n == IF g.raised = "" THEN Len(data.close) ELSE 0
       IN call' = [op |-> "generate_signals", args |-> [data |-> data, period |-> period],
                   left |-> [data_columns |-> g.df.caller_columns],
                   out |-> [raised |-> g.raised,
                            columns |-> g.df.columns,
                            rsi |-> [i \in 1..n |-> Rsi(data.close, i, period)],
                            rsi_signal |-> [i \in 1..n |->
                                              rsi_signal_of(data.close, i, period)]]]
  /\ UNCHANGED <<portfolio, trade_history, open_positions, performance, result, pc, sim,
                 strategy, db, collector>>

\* strategy.generate_trade_recommendation(symbol, market_data,
\* available_capital, current_positions)
Recommend ==
  /\ pc = "idle"
  /\ call.op \in {"none", "TradingStrategy"}
  /\ \E symbol \in Symbols, market_data \in FrameArgs, available_capital \in CapitalArgs :
       \E current_positions \in CurrentPositionsArgs(symbol) :
         LET args == [symbol |-> symbol, market_data |-> market_data,
                      available_capital |-> available_capital,
                      current_positions |-> current_positions]
             r == recommend(symbol, market_data, available_capital, current_positions.value)
         IN call' = [op |-> "generate_trade_recommendation", args |-> args,
                     left |-> [data_columns |-> r.data_columns,
                               current_positions |-> current_positions.value],
                     out |-> r]
  /\ UNCHANGED <<portfolio, trade_history, open_positions, performance, result, pc, sim,
                 strategy, db, collector>>

\* the same call once more, with the arguments of the call before, on the
\* frame as that call left it
RecommendAgain ==
  /\ pc = "idle"
  /\ call.op = "generate_trade_recommendation"
  /\ LET a == call.args
         market_data == [a.market_data EXCEPT !.columns = call.left.data_columns,
                                              !.caller_columns = call.left.data_columns]
         r == recommend(a.symbol, market_data, a.available_capital, call.left.current_positions)
     IN call' = [op |-> "generate_trade_recommendation again", args |-> a,
                 left |-> [data_columns |-> r.data_columns,
                           current_positions |-> call.left.current_positions],
                 out |-> r]
  /\ UNCHANGED <<portfolio, trade_history, open_positions, performance, result, pc, sim,
                 strategy, db, collector>>

NextStrategy ==
  \/ NewStrategy
  \/ NewSimulator
  \/ Analyze
  \/ CalculateRsi
  \/ GenerateSignals
  \/ Recommend
  \/ RecommendAgain

SpecStrategy == Init /\ [][NextStrategy]_vars

\* ================================================================ claims
LastTrade == trade_history[Len(trade_history)]

\* C1: after any sequence of execute_buy and execute_sell calls, whatever
\* the amount, quantity and price arguments, the available balance of every
\* currency of the portfolio is >= 0.
C1_AvailableNeverNegative ==
  \A c \in Currencies : portfolio[c].available >= 0

\* C2: every execute_buy and execute_sell call either returns 'success' with
\* its trade appended to the history, or returns an error result with the
\* portfolio, the open-lot table and the trade history unchanged; it never
\* ends with an escaping exception.
C2_SuccessOrUnchangedError ==
  [][ (pc = "idle" /\ result'.op \in {"execute_buy", "execute_sell"})
        => \/ /\ result'.status = "success"
              /\ Len(trade_history') = Len(trade_history) + 1
              /\ result'.trade = Len(trade_history')
           \/ /\ result'.status = "error"
              /\ UNCHANGED <<portfolio, trade_history, open_positions>> ]_vars

\* a step of execute_sell that recorded its trade
SellStep ==
  /\ Len(trade_history') = Len(trade_history) + 1
  /\ trade_history'[Len(trade_history')].side = "sell"

\* lot i of the list, before and after the step
LotBefore(lots, i) == trade_history[lots[i]]
LotAfter(lots, i) == trade_history'[lots[i]]

\* C3: FIFO matching.  In every execute_sell the lots of the sold symbol that
\* are closed are the oldest ones, the surviving lots are the rest of the
\* list in the same order, only the oldest survivor may have been reduced,
\* and the lots of other symbols are untouched; after buys B1 (1 @ 1) and
\* B2 (1 @ 2) of one symbol a sell of 1 closes B1 only, leaves B2 untouched
\* and computes its profit from the entry price 1.
C3_FifoMatching ==
  [][ SellStep =>
        LET sell == trade_history'[Len(trade_history')]
            pre == open_positions[sell.symbol].lots
            post == open_positions'[sell.symbol].lots
            k == Len(pre) - Len(post)
        IN /\ k >= 0
           /\ post = SubSeq(pre, k + 1, Len(pre))
           /\ \A i \in 1..k : ~LotAfter(pre, i).is_open
           /\ \A i \in 1..Len(post) :
                /\ LotAfter(post, i).is_open
                /\ i > 1 => LotAfter(post, i) = LotBefore(post, i)
           /\ \A s \in Symbols \ {sell.symbol} :
                /\ open_positions'[s] = open_positions[s]
                /\ \A i \in 1..Len(open_positions[s].lots) :
                     LotAfter(open_positions[s].lots, i) = LotBefore(open_positions[s].lots, i)
           /\ ( /\ pre = <<1, 2>>
                /\ trade_history[1].quantity = 1 /\ trade_history[1].price = 1
                /\ trade_history[2].quantity = 1 /\ trade_history[2].price = 2
                /\ sell.quantity = 1 )
              => /\ post = <<2>>
                 /\ trade_history'[2] = trade_history[2]
                 /\ ~trade_history'[1].is_open
                 /\ sell.matched_position = 1
                 /\ sell.profit_loss = (sell.price - 1) * QtyStep ]_vars

\* the state after B1 (1 @ 1), B2 (1 @ 2) and a sell of 1 of the same symbol
C3_Witness ==
  /\ Len(trade_history) = 3
  /\ trade_history[1].side = "buy" /\ trade_history[1].price = 1
  /\ trade_history[1].amount = QtyStep /\ ~trade_history[1].is_open
  /\ trade_history[2].side = "buy" /\ trade_history[2].price = 2
  /\ trade_history[2].quantity = 1 /\ trade_history[2].is_open
  /\ trade_history[3].side = "sell" /\ trade_history[3].quantity = 1
  /\ trade_history[3].symbol = trade_history[1].symbol
  /\ open_positions[trade_history[1].symbol].lots = <<2>>

\* C4: partial match.  When the quantity q of a sell is smaller than the
\* remaining quantity r of the oldest open lot of the symbol, that lot stays
\* open at the head of the list with remaining quantity r - q, no other lot
\* changes, and the realized profit of the sell is (exit - entry) * q.
C4_PartialMatch ==
  [][ ( /\ SellStep
        /\ open_positions[trade_history'[Len(trade_history')].symbol].lots # <<>>
        /\ trade_history'[Len(trade_history')].quantity <
             LotBefore(open_positions[trade_history'[Len(trade_history')].symbol].lots, 1).quantity )
      => LET sell == trade_history'[Len(trade_history')]
             pre == open_positions[sell.symbol].lots
             head == LotBefore(pre, 1)
         IN /\ open_positions' = open_positions
            /\ LotAfter(pre, 1) = [head EXCEPT !.quantity = head.quantity - sell.quantity]
            /\ LotAfter(pre, 1).is_open
            /\ \A i \in 1..Len(trade_history) :
                 i # pre[1] => trade_history'[i] = trade_history[i]
            /\ sell.has_pl
            /\ sell.profit_loss = (sell.price - head.price) * sell.quantity * QtyStep ]_vars

\* the state after a buy of 2 @ 1 and a sell of 1 @ 2: the lot stays open
\* with 1 left and the sell realizes (2 - 1) * 1
C4_Witness ==
  /\ Len(trade_history) = 2
  /\ trade_history[1].side = "buy" /\ trade_history[1].price = 1
  /\ trade_history[1].amount = 2 * QtyStep
  /\ trade_history[1].quantity = 1 /\ trade_history[1].is_open
  /\ trade_history[2].side = "sell" /\ trade_history[2].quantity = 1
  /\ trade_history[2].price = 2 /\ trade_history[2].profit_loss = QtyStep
  /\ open_positions[trade_history[1].symbol].lots = <<1>>

\* the history is one or more buys of one symbol at one price followed by a
\* sell, at that price, that empties the base balance
BuysThenFullSell ==
  /\ Len(trade_history) >= 2
  /\ LastTrade.side = "sell"
  /\ portfolio[base_currency(LastTrade.symbol)].amount = 0
  /\ \A i \in 1..(Len(trade_history) - 1) :
       /\ trade_history[i].side = "buy"
       /\ trade_history[i].symbol = LastTrade.symbol
       /\ trade_history[i].price = LastTrade.price

\* C5: after buys of a symbol at price p and a sell of the full base balance
\* at p, the realized profit of the sell is 0, every trade carries
\* fee = feeRate * notional, and the quote balance is below the starting
\* capital by the sum of those fees.
C5_RoundTripCostsBothFees ==
  BuysThenFullSell =>
    /\ LastTrade.profit_loss = 0
    /\ \A i \in 1..Len(trade_history) :
         trade_history[i].fee = FeeRateNum * trade_history[i].amount
    /\ (StartingCapital - portfolio[quote_currency].amount) * FeeRateDen
         = SumSeq([i \in 1..Len(trade_history) |-> trade_history[i].fee])

\* what execute_sell does on the simulator as it is, with valid arguments
TrySell(symbol, size, price) ==
  execute_sell(Self, symbol, size.quantity, size.amount, price, NoData, NoLookup)

\* the size asked for is above the available base balance
Exceeds(symbol, size, price) ==
  LET available == Available(portfolio, base_currency(symbol))
  IN IF size.quantity # None THEN size.quantity[1] > available
     ELSE size.amount # None /\ size.amount[1] > available * price[1] * QtyStep

Rejected(r) ==
  /\ r.result.status = "error"
  /\ r.result.message \in {"insufficient_balance", "nothing_to_sell"}
  /\ Sim(r.portfolio, r.trade_history, r.open_positions, r.performance) = Self

\* r sold exactly the available base balance of the symbol
SoldAll(r, symbol) ==
  /\ r.result.status # "error"
  /\ Len(r.trade_history) = Len(trade_history) + 1
  /\ r.trade_history[Len(r.trade_history)].side = "sell"
  /\ r.trade_history[Len(r.trade_history)].quantity = Available(portfolio, base_currency(symbol))
  /\ r.portfolio[base_currency(symbol)].available = 0

C8_NegativeArgumentsRejected ==
  pc = "idle" =>
    \A symbol \in Symbols, price \in PriceArgs \ {None} :
      /\ \A amount \in {a \in AmountArgs : a < 0} :
           LET r == execute_buy(Self, symbol, amount, price, NoData, NoLookup)
           IN /\ r.result.status = "error"
              /\ Sim(r.portfolio, r.trade_history, r.open_positions, r.performance) = Self
      /\ \A size \in SizeArgs({q \in QuantityArgs : q < 0}, {a \in AmountArgs : a < 0}) \
                       {[quantity |-> None, amount |-> None]} :
           LET r == execute_sell(Self, symbol, size.quantity, size.amount, price,
                                 NoData, NoLookup)
           IN /\ r.result.status = "error"
              /\ Sim(r.portfolio, r.trade_history, r.open_positions, r.performance) = Self

\* C9: run_simulation always completes and returns its result, with one
\* daily result per simulated day, also when the data source fails or
\* returns an empty sequence for a symbol.
C9_RunSimulationCompletes ==
  pc = "done" =>
    /\ result.status = "success"
    /\ Len(sim.daily_results) = sim.days + 1

\* C10: run_simulation starts from the reset state whatever was done before:
\* at its first simulated day the portfolio holds only the quote currency at
\* the starting capital, the trade history and the open-lot table are empty
\* and the performance counters have their initial values; and no trade
\* from before the call is in the history during the run.
C10_StartsFromReset ==
  /\ (pc = "sim" /\ sim.day = 0 /\ sim.idx = 1) =>
       /\ \A c \in Currencies : portfolio[c].present <=> c = quote_currency
       /\ portfolio[quote_currency].amount = StartingCapital
       /\ portfolio[quote_currency].available = StartingCapital
       /\ trade_history = <<>>
       /\ \A s \in Symbols : ~open_positions[s].present /\ open_positions[s].lots = <<>>
       /\ performance.win_count = 0 /\ performance.loss_count = 0
       /\ performance.total_trades = 0
       /\ ~performance.has_peak
       /\ performance.drawdown.num = 0 /\ performance.max_drawdown.num = 0
       /\ performance.largest_win = 0 /\ performance.largest_loss = 0
       /\ performance.current_balance = StartingCapital
       /\ performance.total_profit_loss = 0
  /\ pc = "sim" =>
       /\ Len(trade_history) <= sim.day * Len(sim.symbols) + (sim.idx - 1)
       /\ \A s \in Symbols :
            \A i \in 1..Len(open_positions[s].lots) :
              open_positions[s].lots[i] <= Len(trade_history)

\* run_simulation stands at its first day on a simulator that had been used
C10_Witness ==
  /\ pc = "sim" /\ sim.day = 0 /\ sim.idx = 1
  /\ sim.dirty_before

\* the run has recorded exactly n daily results, dated day 0, 1, ..., n - 1
DailySnapshots(n) ==
  /\ Len(sim.daily_results) = n
  /\ \A i \in 1..n : sim.daily_results[i].date = i - 1

\* C11: run_simulation passes from RUNNING to COMPLETED for every days >= 0:
\* while it runs it has recorded one daily result for each day stepped,
\* dated by consecutive days, and it ends by returning its result with
\* days + 1 daily results.
C11_OneSnapshotPerDayToCompletion ==
  /\ pc = "sim" => (result.status = "running" /\ DailySnapshots(sim.day))
  /\ pc = "done" => /\ result.op = "run_simulation"
                    /\ result.status = "success"
                    /\ DailySnapshots(sim.days + 1)

\* C12: in run_simulation a recommendation is requested for a symbol only
\* on a day on which at least 30 of its bars are at or before the step's
\* timestamp, every bar passed to the strategy is at or before that
\* timestamp (at least days - day days old), and every trade of the run
\* was executed on such a recommendation.
C12_NoLookAhead ==
  pc \in {"sim", "done"} =>
    /\ \A i \in 1..Len(sim.requests) :
         LET r == sim.requests[i]
             h == sim.historical_data[r.symbol]
         IN /\ h.kind = "bars"
            /\ r.bars >= MinBars
            /\ r.bars <= h.n - HoursPerDay * (sim.days - r.day)
    /\ \A k \in 1..Len(trade_history) :
         \E i \in 1..Len(sim.requests) : sim.requests[i].trade = k

\* a finished run that skipped its first days for lack of bars and traded
\* once the symbol had 30 bars
C12_Witness ==
  /\ pc = "done"
  /\ result.status = "success"
  /\ sim.requests # <<>>
  /\ sim.requests[1].day > 0
  /\ sim.requests[1].trade = 1
  /\ sim.historical_data[sim.requests[1].symbol].n > sim.requests[1].bars

\* what the trade of request r moved on the quote balance
QuoteMoved(r) ==
  IF r.trade = 0 THEN 0
  ELSE LET trade == trade_history[r.trade]
       IN IF trade.side = "buy" THEN -trade.amount
          ELSE trade.amount - SellFee(trade.amount)

\* C13: within run_simulation the ledger is changed strictly in sequence:
\* the recommendations are requested day by day and, within a day, in the
\* order of the symbols list; the trades stand in the history in that same
\* order; and each recommendation is computed from the available quote
\* balance as the trade of the previous one left it.
C13_SequentialLedger ==
  pc \in {"sim", "done"} =>
    /\ \A i, j \in 1..Len(sim.requests) :
         i < j =>
           /\ \/ sim.requests[i].day < sim.requests[j].day
              \/ /\ sim.requests[i].day = sim.requests[j].day
                 /\ sim.requests[i].idx < sim.requests[j].idx
           /\ (sim.requests[i].trade # 0 /\ sim.requests[j].trade # 0)
                => sim.requests[i].trade < sim.requests[j].trade
    /\ sim.requests # <<>> => sim.requests[1].capital = StartingCapital
    /\ \A i \in 1..(Len(sim.requests) - 1) :
         sim.requests[i + 1].capital = sim.requests[i].capital + QuoteMoved(sim.requests[i])

\* a run that traded for two symbols on one day and again on the next day
C13_Witness ==
  /\ pc \in {"sim", "done"}
  /\ Len(sim.requests) >= 3
  /\ sim.requests[1].day = sim.requests[2].day
  /\ sim.requests[2].day < sim.requests[3].day
  /\ \A i \in 1..3 : sim.requests[i].trade = i
  /\ sim.requests[2].capital < sim.requests[1].capital
  /\ sim.requests[3].capital < sim.requests[2].capital

\* C16: backtest determinism.  A step of run_simulation that executes a
\* trade is handed the same bars of the same history whatever the
\* wall-clock time at which the run was started, so that a second run on
\* identical bars makes the same trade at that step.
C16_SameBarsWheneverStarted ==
  [][ ( /\ pc = "sim" /\ pc' = "sim"
        /\ Len(sim'.requests) = Len(sim.requests) + 1
        /\ Len(trade_history') = Len(trade_history) + 1 )
      => LET r == sim'.requests[Len(sim'.requests)]
         IN \A started \in 0..MaxStartDelay :
              VisibleBars(sim.historical_data[r.symbol].n, sim.days, r.day, started) = r.bars ]_vars

\* C20: a risk level outside 1..5 is rejected when a strategy or a simulator
\* is constructed: the constructor raises, and no strategy ever holds a
\* risk_level outside 1..5.
C20_RiskLevelOutsideRangeRejected ==
  /\ strategy.risk_level \in 1..5
  /\ call.op \in {"TradingStrategy", "TradingSimulator"} /\ call.args.risk_level \notin 1..5
       => call.out.raised # ""
\* C17: the EMA crossover signal is edge-triggered: over the bars of an
\* analyzed series it is +1 on exactly the bars where ema_7 > ema_21 is true
\* and was false on the bar before, and 0 on every other bar.
C17_EmaSignalOnUpwardCrossOnly ==
  call.op = "analyze_market_data" /\ call.out.raised = ""
    => \A i \in DOMAIN call.out.ema_signal :
         call.out.ema_signal[i] =
           (IF i > 1 /\ call.out.ema_above[i] /\ ~call.out.ema_above[i - 1] THEN 1 ELSE 0)

\* C19: analyze_market_data does not raise on a series shorter than the
\* longest indicator period, the series of length 0 and 1 included: given a
\* frame with the columns of get_klines it returns the analyzed frame.
C19_NoRaiseOnShortHistory ==
  /\ call.op = "analyze_market_data"
  /\ call.args.data.columns = KlineColumns
  /\ Len(call.args.data.close) < EmaLong
  => call.out.raised = ""

\* C18: an average loss of zero over the window gives RSI = 100: on every
\* bar past the warm-up of `period` bars over which no close fell, a flat
\* window included, calculate_rsi yields 100 and not NaN.
C18_ZeroLossRsiIs100 ==
  call.op = "calculate_rsi" /\ call.out.raised = ""
    => \A i \in DOMAIN call.out.rsi :
         (/\ i > call.args.period
          /\ \A j \in (i - call.args.period + 1)..i :
               call.args.data.close[j] >= call.args.data.close[j - 1])
         => call.out.rsi[i] = Value(1, 1)
\* C14: on a frame that can be analyzed, generate_trade_recommendation
\* returns BUY exactly when the combined signal of the latest bar is >=
\* signal_threshold and no open position for the symbol was passed, with
\* amount = available_capital * position_size; SELL exactly when the signal
\* is <= -signal_threshold and an open position was passed, with the full
\* quantity of that position; HOLD otherwise.
C14_RecommendationFollowsSignal ==
  /\ call.op = "generate_trade_recommendation"
  /\ call.args.market_data.columns = KlineColumns
  /\ call.args.market_data.close # <<>>
  => LET params == strategy.strategy_params
         held == call.args.current_positions.held
         buy == call.out.custom_signal >= params.signal_threshold /\ ~held
         sell == call.out.custom_signal <= -params.signal_threshold /\ held
     IN /\ call.out.raised = ""
        /\ call.out.action = (IF buy THEN "BUY" ELSE IF sell THEN "SELL" ELSE "HOLD")
        /\ buy => call.out.amount * 100 = call.args.available_capital * params.position_size
        /\ sell => call.out.quantity = MaxQuantity
\* C15: generate_trade_recommendation performs no mutation: a call, the
\* first or a repeated one, leaves the portfolio, the open lots, the trade
\* history and the strategy as they were, leaves the caller's frame with the
\* columns it had and current_positions as it was passed, and a repeated
\* call with the same arguments returns the same action, price and amount.
C15_RecommendationMutatesNothing ==
  [][/\ call'.op \in {"generate_trade_recommendation", "generate_trade_recommendation again"}
     /\ call'.op # call.op
     => /\ UNCHANGED <<portfolio, open_positions, trade_history, strategy>>
        /\ call'.left.data_columns = call'.args.market_data.columns
        /\ call'.left.current_positions = call'.args.current_positions.value
        /\ call.op = "generate_trade_recommendation"
             => /\ call'.args = call.args
                /\ call'.out.raised = call.out.raised
                /\ call'.out.action = call.out.action
                /\ call'.out.price = call.out.price
                /\ call'.out.amount = call.out.amount]_vars

\* a recommendation to buy was made twice on a frame that has no timestamp
\* column to sort by
C15_Witness ==
  /\ call.op = "generate_trade_recommendation again"
  /\ "timestamp" \notin call.args.market_data.columns
  /\ call.out.action = "BUY"
\* a step of execute_buy that recorded its trade
BuyStep ==
  /\ Len(trade_history') = Len(trade_history) + 1
  /\ trade_history'[Len(trade_history')].side = "buy"

\* a step of execute_sell that sells the whole of the only open lot
FullSellStep ==
  /\ SellStep
  /\ Len(open_positions[trade_history'[Len(trade_history')].symbol].lots) = 1
  /\ trade_history'[Len(trade_history')].quantity =
       LotBefore(open_positions[trade_history'[Len(trade_history')].symbol].lots, 1).quantity

\* the quote balance moves by d (in thousandths of a quote unit) in the step
QuoteMovesBy(d) ==
  (portfolio'[quote_currency].available - portfolio[quote_currency].available) * FeeRateDen = d

CallWithoutStore(a) ==
  IF a.op = "execute_buy"
  THEN execute_buy(Self, a.symbol, a.amount[1], a.price, NoData, NoLookup)
  ELSE execute_sell(Self, a.symbol, a.quantity, a.amount, a.price, NoData, NoLookup)

TradesExecutedOn(day) ==
  Cardinality({i \in 1..Len(sim.requests) :
                 sim.requests[i].day = day /\ sim.requests[i].trade # 0})

\* C23: every daily result of run_simulation carries the number of trades
\* executed on its simulated day, and when the run has completed the counts
\* of its daily results add up to the number of trades in the history.
C23_DailyTradeCounts ==
  /\ pc \in {"sim", "done"} =>
       \A i \in 1..Len(sim.daily_results) :
         sim.daily_results[i].trades = TradesExecutedOn(sim.daily_results[i].date)
  /\ (pc = "done" /\ result.status = "success") =>
       SumSeq([i \in 1..Len(sim.daily_results) |-> sim.daily_results[i].trades])
         = Len(trade_history)

\* ---------------------------------------------------------------- C24
\* C24: a step of run_simulation executes a buy of a symbol only when the
\* simulator holds no open lot of that symbol, so that during the run every
\* symbol has at most one open lot.
C24_BuyOnlyWithoutOpenLot ==
  [][ pc = "sim" =>
        /\ BuyStep => open_positions[LastTrade'.symbol].lots = <<>>
        /\ \A s \in Symbols : Len(open_positions'[s].lots) <= 1 ]_vars

\* ---------------------------------------------------------------- C25
\* the last request of the run: the recommendation asked for on this step
LastRequest == sim.requests[Len(sim.requests)]

\* the open quantity of a symbol: what is left in its lots
OpenQuantity(symbol) ==
  SumSeq([i \in 1..Len(open_positions[symbol].lots) |->
            trade_history[open_positions[symbol].lots[i]].quantity])

\* the step asked for a recommendation for a symbol of which a position was
\* open, and the combined signal was at or below minus the threshold
SellSignalWhileHeld ==
  /\ Len(sim.requests') = Len(sim.requests) + 1
  /\ open_positions[LastRequest'.symbol].lots # <<>>
  /\ sim'.signal = "SELL"

\* C25: in run_simulation, a step on which at least 30 bars are visible, a
\* position of the symbol is open and the combined signal is at or below
\* minus the threshold sells the whole open quantity of the symbol: a sell
\* trade is appended and the symbol's lot list becomes empty.
C25_SellSignalClosesPosition ==
  [][ (pc = "sim" /\ SellSignalWhileHeld) =>
        /\ Len(trade_history') = Len(trade_history) + 1
        /\ LastTrade'.side = "sell"
        /\ LastTrade'.quantity = OpenQuantity(LastRequest'.symbol)
        /\ open_positions'[LastRequest'.symbol].lots = <<>> ]_vars

\* ---------------------------------------------------------------- C26
\* the lots of open_positions, over all symbols
Lots(op) == UNION {{op[s].lots[i] : i \in 1..Len(op[s].lots)} : s \in AllSymbols}

\* a buy trade is marked open exactly when it is in its symbol's lot list
OpenFlagMatchesList(th, op) ==
  \A i \in 1..Len(th) :
    th[i].side = "buy" =>
      (th[i].is_open <=> \E k \in 1..Len(op[th[i].symbol].lots) : op[th[i].symbol].lots[k] = i)

\* every lot in a list has a remaining quantity > 0
ListedLotsPositive(th, op) == \A i \in Lots(op) : th[i].quantity > 0

\* a buy that was closed is open again
Reopened == \E i \in 1..Len(trade_history) :
              /\ trade_history[i].side = "buy"
              /\ ~trade_history[i].is_open
              /\ trade_history'[i].is_open

\* C26: after every call, a buy trade is marked open exactly when it is in
\* its symbol's lot list and every listed lot has a remaining quantity > 0
\* (so a lot leaves the list in the sell that consumes the last of it); a
\* successful buy lists its trade with a positive quantity; a closed lot is
\* never open again.
C26_LotInvariants ==
  [][ /\ OpenFlagMatchesList(trade_history', open_positions')
      /\ ListedLotsPositive(trade_history', open_positions')
      /\ BuyStep => (LastTrade'.quantity > 0 /\ Len(trade_history') \in Lots(open_positions'))
      /\ ~Reopened ]_vars

\* ---------------------------------------------------------------- C27
\* the sum of the remaining quantities of the open lots of a symbol
LotQuantity(th, op, symbol) ==
  SumSeq([i \in 1..Len(op[symbol].lots) |-> th[op[symbol].lots[i]].quantity])

\* the base balance of a symbol, 0 when the currency is not in the portfolio
BaseBalance(pf, symbol) ==
  IF pf[base_currency(symbol)].present THEN pf[base_currency(symbol)].amount ELSE 0

\* C27: after every call of execute_buy and execute_sell, accepted or
\* rejected, the base balance of every symbol equals the sum of the
\* remaining quantities of its open lots, and an accepted sell is matched in
\* full: the lots of its symbol lose exactly the quantity sold.
C27_LotsCarryTheBaseBalance ==
  [][ /\ \A symbol \in Symbols :
           BaseBalance(portfolio', symbol) = LotQuantity(trade_history', open_positions', symbol)
      /\ SellStep =>
           LotQuantity(trade_history, open_positions, LastTrade'.symbol)
             - LotQuantity(trade_history', open_positions', LastTrade'.symbol)
           = LastTrade'.quantity ]_vars

\* ---------------------------------------------------------------- C28
\* the quantity the step took from the lot at index i of the history: the
\* whole of a lot it closed, else what the lot lost
MatchedQuantity(i) ==
  IF trade_history[i].is_open /\ ~trade_history'[i].is_open
  THEN trade_history[i].quantity
  ELSE trade_history[i].quantity - trade_history'[i].quantity

\* C28: the profit_loss recorded on a sell trade is the sum, over all the
\* lots the sell matched, of (exit price - entry price of the lot) * the
\* quantity matched with the lot.
C28_ProfitLossOverAllLots ==
  [][ SellStep =>
        LET lots == open_positions[LastTrade'.symbol].lots
        IN LastTrade'.profit_loss =
             SumSeq([k \in 1..Len(lots) |->
                       (LastTrade'.price - trade_history[lots[k]].price)
                         * MatchedQuantity(lots[k]) * QtyStep]) ]_vars

\* ---------------------------------------------------------------- C29
\* the sell trades of the history whose recorded profit_loss satisfies P
SellsWithGain == {i \in 1..Len(trade_history) :
                    trade_history[i].side = "sell" /\ trade_history[i].profit_loss > 0}
SellsWithLoss == {i \in 1..Len(trade_history) :
                    trade_history[i].side = "sell" /\ trade_history[i].profit_loss < 0}

\* C29: after any sequence of trades the performance snapshot can be read
\* off the history: win_count is the number of sell trades with
\* profit_loss > 0, loss_count the number with profit_loss < 0, and
\* total_trades the length of the history.
C29_CountersFollowHistory ==
  /\ performance.win_count = Cardinality(SellsWithGain)
  /\ performance.loss_count = Cardinality(SellsWithLoss)
  /\ performance.total_trades = Len(trade_history)

\* ---------------------------------------------------------------- C30
\* the peak is the largest total balance a metrics update has seen so far
PeakIsRunningMaximum ==
  /\ performance'.has_peak
  /\ performance'.peak_balance =
       Max(performance'.current_balance,
           IF performance.has_peak THEN performance.peak_balance ELSE 0)

\* 0 <= drawdown <= max_drawdown <= 100, drawdown being measured on the peak
DrawdownInRange(p) ==
  /\ p.drawdown.den > 0 /\ p.drawdown.num >= 0
  /\ p.max_drawdown.den > 0
  /\ ~RatioGT(p.drawdown, p.max_drawdown)
  /\ p.max_drawdown.num <= p.max_drawdown.den
  /\ p.drawdown.num * p.peak_balance = (p.peak_balance - p.current_balance) * p.drawdown.den

\* C30: after every metrics update the peak balance is the largest total
\* balance seen since the reset and is > 0, 0 <= drawdown <= max_drawdown
\* <= 100 with drawdown = (peak - current) / peak * 100, and max_drawdown
\* has not decreased.
C30_DrawdownAgainstPeak ==
  [][ performance' # performance =>
        /\ PeakIsRunningMaximum
        /\ performance'.peak_balance > 0
        /\ DrawdownInRange(performance')
        /\ ~RatioGT(performance.max_drawdown, performance'.max_drawdown) ]_vars

\* ---------------------------------------------------------------- C31
\* the symbols with an open position: those whose lot list is not empty
SymbolsHeld == {s \in AllSymbols : open_positions[s].lots # <<>>}

\* C31: during run_simulation the number of symbols with an open position
\* never exceeds the max_positions of the strategy's risk level.
C31_AtMostMaxPositions ==
  pc = "sim" => Cardinality(SymbolsHeld) <= strategy.strategy_params.max_positions

\* ---------------------------------------------------------------- C32
\* the direction of the change of ema_7 > ema_21 at bar i of the last
\* analyzed series: 1 from false to true, -1 from true to false, else 0
CrossoverDirection(i) ==
  IF i = 1 \/ call.out.ema_above[i] = call.out.ema_above[i - 1] THEN 0
  ELSE IF call.out.ema_above[i] THEN 1 ELSE -1

\* C32: the EMA signal tells the direction of the crossover: over the bars
\* of an analyzed series it is +1 exactly where ema_7 > ema_21 turns from
\* false to true, -1 exactly where it turns from true to false, and 0 on
\* every other bar.
C32_EmaSignalTellsDirection ==
  call.op = "analyze_market_data" /\ call.out.raised = ""
    => \A i \in DOMAIN call.out.ema_signal :
         call.out.ema_signal[i] = CrossoverDirection(i)

\* ---------------------------------------------------------------- C33
\* RSI value x is defined and <= limit, >= limit
RsiAtMost(x, limit) == ~x.nan /\ 100 * x.num <= limit * x.den
RsiAtLeast(x, limit) == ~x.nan /\ 100 * x.num >= limit * x.den

\* C33: the RSI signal is nonzero only on a crossing between two defined
\* RSI values: over the bars of a series given to generate_signals it is +1
\* only on a bar whose RSI is > 30 after a bar whose RSI was defined and
\* <= 30, and -1 only on a bar whose RSI is < 70 after a bar whose RSI was
\* defined and >= 70; the first bar after the warm-up carries no signal.
C33_RsiSignalOnDefinedCrossingOnly ==
  call.op = "generate_signals" /\ call.out.raised = ""
    => \A i \in DOMAIN call.out.rsi_signal :
         /\ call.out.rsi_signal[i] = 1
              => /\ i > 1
                 /\ RsiAtMost(call.out.rsi[i - 1], RsiOversold)
                 /\ RsiAbove(call.out.rsi[i], RsiOversold)
         /\ call.out.rsi_signal[i] = -1
              => /\ i > 1
                 /\ RsiAtLeast(call.out.rsi[i - 1], RsiOverbought)
                 /\ RsiBelow(call.out.rsi[i], RsiOverbought)

\* ---------------------------------------------------------------- C34
\* the portfolio valued at price p: quote balance + base balances * p
ValueAt(pf, p) == get_balance(pf, [c \in Bases |-> p])

C35_OneSchedulerThread ==
  /\ Cardinality(AliveThreads) <= 1
  /\ \A t \in 1..Len(collector.threads) : ~collector.threads[t].late

====
